---- MODULE Spec2Model ----
(***************************************************************************)
(* A model of the boost-relay auction engine: builder block submissions,   *)
(* the top-bid cache, the payload escrow, and the proposer endpoints       *)
(* getHeader and getPayload, translated from services/api and datastore.   *)
(***************************************************************************)
EXTENDS Integers, FiniteSets, Sequences, Bags, TLC

(***************************************************************************)
(* Bounds of the model.                                                    *)
(***************************************************************************)
MaxSlot == 2
MaxValue == 2
MaxBids == 3
MaxBidValue == 3
MaxBatch == 2
maxConcurrentBlocks == 2

(***************************************************************************)
(* Small input universes.                                                  *)
(***************************************************************************)
None == [none |-> TRUE]
Reqs == {"r1", "r2"}
Builders == {"bA", "bB"}
Validators == {"v1", "v2"}
RelayKey == "relay"
Slots == 1..MaxSlot
Values == 0..MaxValue
ParentHashes == {"pa", "pb"}
BlockHashes == {"h1", "h2"}
FeeRecipients == {"fa", "fb"}
DomainBuilder == "DomainBuilder"
DomainBeaconProposer == "DomainBeaconProposer"
Domains == {DomainBuilder, DomainBeaconProposer}
ValidatorIndices == 1..3

OtherOf(x, S) == CHOOSE y \in S : y # x

Max(S) == CHOOSE x \in S : \A y \in S : y <= x

(***************************************************************************)
(* The known-validator index map of the datastore: index 3 is unknown.     *)
(***************************************************************************)
KnownValidatorsByIndex == (1 :> "v1") @@ (2 :> "v2")

GetKnownValidatorPubkeyByIndex(index) ==
  IF index \in DOMAIN KnownValidatorsByIndex
    THEN [pubkey |-> KnownValidatorsByIndex[index], found |-> TRUE]
    ELSE [pubkey |-> "", found |-> FALSE]

(***************************************************************************)
(* BLS signatures: a signature records the key that made it, the domain    *)
(* it was made under and whether it covers the accompanying message.       *)
(***************************************************************************)
Signatures == [signer : Builders \cup Validators \cup {RelayKey}, domain : Domains]

SignMessage(domain, sk) == [signer |-> sk, domain |-> domain]

VerifySignature(domain, pk, sig) == sig.signer = pk /\ sig.domain = domain

VARIABLES
  headSlot,          \* RelayAPI.headSlot
  ffForceGetHeader204,
  ffDisableLowPrioBuilders,
  builderStatus,     \* redis hash block-builder-status
  cacheGetHeader,    \* redis keys cache-gethead-response:<slot>_<parent>_<proposer>
  cacheGetPayload,   \* redis keys cache-getpayload-response:<slot>_<proposer>_<blockhash>
  pc,                \* position of each handleSubmitNewBlock request
  payload,           \* the decoded BuilderSubmitBlockRequest of each request
  simErr,            \* the simErr local of each request
  resp,              \* the HTTP response written by each request
  dbSubmissions,     \* builder_block_submission audit rows
  passed,            \* history: <<AuctionKey, value>> of submissions that passed simulation
  everTop,           \* history: <<AuctionKey, block hash>> of every header stored as top bid
  out,               \* the last getHeader / getPayload request and its response
  outPrev,           \* the response to the same getPayload request made just before
  ffDisableBlockPublishing,
  bgSaveDelivered,   \* getPayload goroutines that have yet to save the delivered payload
  bgPublishBlock,    \* getPayload goroutines that have yet to publish the block
  dbDeliveredPayloads, \* delivered-payload audit rows
  publishedBlocks,   \* blocks handed to beaconClient.PublishBlock
  regTimestamp,      \* redis hash of registration timestamps, by pubkey
  regEntry,          \* redis hash of signed registrations, by pubkey
  regPc,             \* position of each handleRegisterValidator request
  regStart,          \* the start time of each request
  regN,              \* the number of batch entries each request has processed
  regResp,           \* the HTTP response written by each request
  bgReg,             \* goroutines that have yet to finish SetValidatorRegistration
  persisted,         \* history: registrations whose timestamp was written
  tsSupplied,        \* history: <<pubkey, timestamp>> given to SetValidatorRegistrationTimestampIfNewer
  tsLast,            \* the last call of SetValidatorRegistrationTimestampIfNewer
  bidValues,         \* SaveBidAndUpdateTopBid: latest saved bid value of each builder
  topBid,            \* SaveBidAndUpdateTopBid: the stored top bid
  bidReq,            \* SaveBidAndUpdateTopBid: the last call
  bidResp,           \* SaveBidAndUpdateTopBid: the response to the last call
  nBids,             \* SaveBidAndUpdateTopBid: number of calls made
  relayConfigPubkey, \* redis hash relay-config, field pubkey ("": not set)
  relayInstances,    \* the relay instances under construction by NewRelayAPI
  builderStatusUpdate, \* the last update of handleInternalBuilderStatus and its response
  counter,           \* BlockSimulationRateLimiter.counter
  cvWaiters,         \* the goroutines blocked in cv.Wait, in the order they began to wait
  simPc,             \* position of each request inside BlockSimulationRateLimiter.send
  simCancelled,      \* whether the context of each request is cancelled
  simResult,         \* the error returned by send to each request
  isUpdatingProposerDuties,
  proposerDutiesSlot,
  proposerDutiesResponse,
  dutiesTasks,       \* the goroutines running updateProposerDuties
  ctxCancelled,      \* the context passed to SubscribeToHeadEvents
  subPc,             \* the subscribing goroutine of SubscribeToHeadEvents
  subscribed,        \* the sse client is delivering to eventCh
  eventChClosed,
  slotCClosed,
  fwdPc,             \* the forwarding loop of SubscribeToHeadEvents
  fwdSlot,           \* the slot the forwarding loop is about to send
  received,          \* the head events taken from eventCh, in order
  delivered          \* the slots taken from slotC by the consumer, in order

relayVars == <<headSlot, ffForceGetHeader204, ffDisableLowPrioBuilders, builderStatus,
               cacheGetHeader, cacheGetPayload, pc, payload, simErr, resp,
               dbSubmissions, passed, everTop, out, outPrev>>
bidVars == <<bidValues, topBid, bidReq, bidResp, nBids>>
deliveryVars == <<ffDisableBlockPublishing, bgSaveDelivered, bgPublishBlock,
                  dbDeliveredPayloads, publishedBlocks>>
regVars == <<regTimestamp, regEntry, regPc, regStart, regN, regResp, bgReg, persisted,
             tsSupplied, tsLast>>
startupVars == <<relayConfigPubkey, relayInstances>>
limiterVars == <<counter, cvWaiters, simPc, simCancelled, simResult>>
dutiesVars == <<isUpdatingProposerDuties, proposerDutiesSlot, proposerDutiesResponse,
                dutiesTasks>>
headEventVars == <<ctxCancelled, subPc, subscribed, eventChClosed, slotCClosed, fwdPc,
                   fwdSlot, received, delivered>>
serviceVars == <<startupVars, builderStatusUpdate, limiterVars, dutiesVars, headEventVars>>
vars == <<relayVars, bidVars, deliveryVars, serviceVars, regVars, serviceVars>>

AuctionKeys == Slots \X ParentHashes \X Validators
BlockKeys == Slots \X Validators \X BlockHashes

(***************************************************************************)
(* Builder submissions.  The request a builder sends is built from a small *)
(* description: a well-formed submission with at most one defect.          *)
(***************************************************************************)
Defects == {"ok", "missing", "blockHash", "parentHash", "feeRecipient",
            "sigKey", "sigDomain", "noTx"}

SubmissionInputs ==
  [builder : Builders, slot : Slots, blockHash : BlockHashes,
   value : Values, defect : Defects]

BuilderSubmitBlockRequest(in) ==
  [message |->
     IF in.defect = "missing" THEN None ELSE
     [slot |-> in.slot,
      parentHash |-> "pa",
      blockHash |-> IF in.defect = "blockHash"
                      THEN OtherOf(in.blockHash, BlockHashes) ELSE in.blockHash,
      builderPubkey |-> in.builder,
      proposerPubkey |-> "v1",
      proposerFeeRecipient |-> "fa",
      value |-> in.value],
   executionPayload |->
     [blockHash |-> in.blockHash,
      parentHash |-> IF in.defect = "parentHash" THEN "pb" ELSE "pa",
      feeRecipient |-> IF in.defect = "feeRecipient" THEN "fb" ELSE "fa",
      numTx |-> IF in.defect = "noTx" THEN 0 ELSE 1],
   signature |->
     [signer |-> IF in.defect = "sigKey"
                   THEN OtherOf(in.builder, Builders) ELSE in.builder,
      domain |-> IF in.defect = "sigDomain"
                   THEN DomainBeaconProposer ELSE DomainBuilder]]

NoPayload == [message |-> None, executionPayload |-> None, signature |-> None]

(***************************************************************************)
(* services/api/utils.go                                                   *)
(***************************************************************************)
VerifyBuilderBlockSubmission(p) ==
  IF p.message.blockHash # p.executionPayload.blockHash THEN "blockHash mismatch"
  ELSE IF p.message.parentHash # p.executionPayload.parentHash THEN "parentHash mismatch"
  ELSE IF p.message.proposerFeeRecipient # p.executionPayload.feeRecipient
    THEN "feeRecipient mismatch"
  ELSE "nil"

PayloadToPayloadHeader(ep) ==
  [blockHash |-> ep.blockHash, parentHash |-> ep.parentHash,
   feeRecipient |-> ep.feeRecipient]

BuilderSubmitBlockRequestToSignedBuilderBid(req, sk, pubkey, domain) ==
  [message |-> [value |-> req.message.value,
                header |-> PayloadToPayloadHeader(req.executionPayload),
                pubkey |-> pubkey],
   signature |-> SignMessage(domain, sk)]

(***************************************************************************)
(* datastore/redis.go                                                      *)
(***************************************************************************)
keyCacheGetHeaderResponse(slot, parentHash, proposerPubkey) ==
  <<slot, parentHash, proposerPubkey>>

keyCacheGetPayloadResponse(slot, proposerPubkey, blockHash) ==
  <<slot, proposerPubkey, blockHash>>

SaveGetHeaderResponse(cache, slot, parentHash, proposerPubkey, headerResp) ==
  [cache EXCEPT ![keyCacheGetHeaderResponse(slot, parentHash, proposerPubkey)] = headerResp]

GetGetHeaderResponse(cache, slot, parentHash, proposerPubkey) ==
  cache[keyCacheGetHeaderResponse(slot, parentHash, proposerPubkey)]

SaveGetPayloadResponse(cache, slot, proposerPubkey, payloadResp) ==
  [cache EXCEPT ![keyCacheGetPayloadResponse(slot, proposerPubkey, payloadResp.blockHash)]
                   = payloadResp]

GetGetPayloadResponse_AnyProposer(cache, slot, proposerPubkey, blockHash) ==
  IF \E v \in Validators : cache[keyCacheGetPayloadResponse(slot, v, blockHash)] # None
    THEN cache[keyCacheGetPayloadResponse(slot,
                 CHOOSE v \in Validators :
                   cache[keyCacheGetPayloadResponse(slot, v, blockHash)] # None,
                 blockHash)]
    ELSE None

GetGetPayloadResponse(cache, slot, proposerPubkey, blockHash) ==
  cache[keyCacheGetPayloadResponse(slot, proposerPubkey, blockHash)]

RedisBlockBuilderStatusHighPrio == "high-prio"
RedisBlockBuilderStatusBlacklisted == "blacklisted"

GetBlockBuilderStatus_NeverBlacklisted(builderPubkey) ==
  [isHighPrio |-> builderStatus[builderPubkey] = RedisBlockBuilderStatusHighPrio,
   isBlacklisted |-> FALSE]

GetBlockBuilderStatus(builderPubkey) ==
  [isHighPrio |-> builderStatus[builderPubkey] = RedisBlockBuilderStatusHighPrio,
   isBlacklisted |-> builderStatus[builderPubkey] = RedisBlockBuilderStatusBlacklisted]

(***************************************************************************)
(* Initial state: a relay right after NewRelayAPI, with an empty cache.    *)
(* The feature flags are read from the environment once, at construction.  *)
(***************************************************************************)
NoResp == [code |-> 0, msg |-> ""]
NoOut == [op |-> "", req |-> None, code |-> 0, msg |-> "", body |-> None]
NoBid == [builder |-> "", value |-> 0]
NoBidReq == [builder |-> "", value |-> 0, isCancellationEnabled |-> FALSE,
             prevTopBid |-> NoBid, prevBidValues |-> [b \in Builders |-> 0]]
NoBidResp == [WasBidSaved |-> FALSE, WasTopBidUpdated |-> FALSE, IsNewTopBid |-> FALSE,
              TopBidValue |-> 0, TopBidBuilder |-> "", PrevTopBidValue |-> 0]

InitBidVars ==
  /\ bidValues = [b \in Builders |-> 0]
  /\ topBid = NoBid
  /\ bidReq = NoBidReq
  /\ bidResp = NoBidResp
  /\ nBids = 0

RegReqs == {"q1", "q2"}

NoTsCall == [pubkey |-> "", timestamp |-> 0, err |-> "", prevTimestamp |-> 0]

InitRegVars ==
  /\ regTimestamp = [pk \in {} |-> 0]
  /\ regEntry = [pk \in Validators |-> None]
  /\ regPc = [q \in RegReqs |-> "idle"]
  /\ regStart = [q \in RegReqs |-> 0]
  /\ regN = [q \in RegReqs |-> 0]
  /\ regResp = [q \in RegReqs |-> NoResp]
  /\ bgReg = {}
  /\ persisted = {}
  /\ tsSupplied = {}
  /\ tsLast = NoTsCall

Instances == {"i1", "i2", "i3"}

SecretKeys == {"kA", "kB"}

NoInstance == [pc |-> "new", blockBuilderAPI |-> FALSE, publicKey |-> "",
               pubkeyRead |-> "", err |-> ""]

InitStartupVars ==
  /\ relayConfigPubkey = ""
  /\ relayInstances = [i \in Instances |-> NoInstance]

NoStatusUpdate == [builderPubkey |-> "", isHighPrio |-> FALSE, isBlacklisted |-> FALSE,
                   newStatus |-> ""]

SimReqs == {"s1", "s2", "s3", "s4"}

InitLimiterVars ==
  /\ counter = 0
  /\ cvWaiters = <<>>
  /\ simPc = [r \in SimReqs |-> "idle"]
  /\ simCancelled = [r \in SimReqs |-> FALSE]
  /\ simResult = [r \in SimReqs |-> ""]

InitDutiesVars ==
  /\ isUpdatingProposerDuties = FALSE
  /\ proposerDutiesSlot = 0
  /\ proposerDutiesResponse = <<>>
  /\ dutiesTasks = {}

InitHeadEventVars ==
  /\ ctxCancelled = FALSE
  /\ subPc = "subscribe"
  /\ subscribed = FALSE
  /\ eventChClosed = FALSE
  /\ slotCClosed = FALSE
  /\ fwdPc = "receive"
  /\ fwdSlot = 0
  /\ received = <<>>
  /\ delivered = <<>>

InitServiceVars ==
  /\ InitStartupVars
  /\ builderStatusUpdate = NoStatusUpdate
  /\ InitLimiterVars
  /\ InitDutiesVars
  /\ InitHeadEventVars

InitRelay ==
  /\ headSlot = 0
  /\ builderStatus = [b \in Builders |-> ""]
  /\ cacheGetHeader = [k \in AuctionKeys |-> None]
  /\ cacheGetPayload = [k \in BlockKeys |-> None]
  /\ payload = [r \in Reqs |-> NoPayload]
  /\ simErr = [r \in Reqs |-> "nil"]
  /\ resp = [r \in Reqs |-> NoResp]
  /\ dbSubmissions = EmptyBag
  /\ passed = {}
  /\ everTop = {}
  /\ out = NoOut
  /\ outPrev = NoOut
  /\ ffDisableBlockPublishing = FALSE
  /\ bgSaveDelivered = {}
  /\ bgPublishBlock = {}
  /\ dbDeliveredPayloads = {}
  /\ publishedBlocks = {}

Init ==
  /\ InitRelay
  /\ ffForceGetHeader204 = FALSE
  /\ ffDisableLowPrioBuilders = FALSE
  /\ pc = [r \in Reqs |-> "idle"]
  /\ InitBidVars
  /\ InitRegVars
  /\ InitServiceVars

cacheVars == <<cacheGetHeader, cacheGetPayload>>
flagVars == <<ffForceGetHeader204, ffDisableLowPrioBuilders, builderStatus>>
histVars == <<passed, everTop>>

(***************************************************************************)
(* handleSubmitNewBlock, up to and including the signature check.  Every   *)
(* early return writes the response and ends the request; a submission     *)
(* that passes goes on to the simulation.                                  *)
(***************************************************************************)
ClearOut == out' = NoOut /\ outPrev' = NoOut

Respond(r, code, msg) == resp' = [resp EXCEPT ![r] = [code |-> code, msg |-> msg]]

SubmissionChecks_SlotBelowHead(p) ==
  IF p.message = None \/ p.executionPayload = None
    THEN [code |-> 400, msg |-> "missing parts of the payload"]
  ELSE IF GetBlockBuilderStatus(p.message.builderPubkey).isBlacklisted
    THEN [code |-> 200, msg |-> "builder is blacklisted"]
  ELSE IF ffDisableLowPrioBuilders /\ ~GetBlockBuilderStatus(p.message.builderPubkey).isHighPrio
    THEN [code |-> 200, msg |-> "rejecting low-prio builder"]
  ELSE IF p.message.slot < headSlot
    THEN [code |-> 400, msg |-> "submission for past slot"]
  ELSE IF p.message.value = 0 \/ p.executionPayload.numTx = 0
    THEN [code |-> 200, msg |-> "block with 0 value or no txs"]
  ELSE IF VerifyBuilderBlockSubmission(p) # "nil"
    THEN [code |-> 400, msg |-> VerifyBuilderBlockSubmission(p)]
  ELSE IF ~VerifySignature(DomainBuilder, p.message.builderPubkey, p.signature)
    THEN [code |-> 400, msg |-> "invalid signature"]
  ELSE NoResp

SubmissionChecks_NoValueCheck(p) ==
  IF p.message = None \/ p.executionPayload = None
    THEN [code |-> 400, msg |-> "missing parts of the payload"]
  ELSE IF GetBlockBuilderStatus(p.message.builderPubkey).isBlacklisted
    THEN [code |-> 200, msg |-> "builder is blacklisted"]
  ELSE IF ffDisableLowPrioBuilders /\ ~GetBlockBuilderStatus(p.message.builderPubkey).isHighPrio
    THEN [code |-> 200, msg |-> "rejecting low-prio builder"]
  ELSE IF p.message.slot <= headSlot
    THEN [code |-> 400, msg |-> "submission for past slot"]
  ELSE IF VerifyBuilderBlockSubmission(p) # "nil"
    THEN [code |-> 400, msg |-> VerifyBuilderBlockSubmission(p)]
  ELSE IF ~VerifySignature(DomainBuilder, p.message.builderPubkey, p.signature)
    THEN [code |-> 400, msg |-> "invalid signature"]
  ELSE NoResp

SubmissionChecks_EmptyBeforePastSlot(p) ==
  IF p.message = None \/ p.executionPayload = None
    THEN [code |-> 400, msg |-> "missing parts of the payload"]
  ELSE IF GetBlockBuilderStatus(p.message.builderPubkey).isBlacklisted
    THEN [code |-> 200, msg |-> "builder is blacklisted"]
  ELSE IF ffDisableLowPrioBuilders /\ ~GetBlockBuilderStatus(p.message.builderPubkey).isHighPrio
    THEN [code |-> 200, msg |-> "rejecting low-prio builder"]
  ELSE IF p.message.value = 0 \/ p.executionPayload.numTx = 0
    THEN [code |-> 200, msg |-> "block with 0 value or no txs"]
  ELSE IF p.message.slot <= headSlot
    THEN [code |-> 400, msg |-> "submission for past slot"]
  ELSE IF VerifyBuilderBlockSubmission(p) # "nil"
    THEN [code |-> 400, msg |-> VerifyBuilderBlockSubmission(p)]
  ELSE IF ~VerifySignature(DomainBuilder, p.message.builderPubkey, p.signature)
    THEN [code |-> 400, msg |-> "invalid signature"]
  ELSE NoResp

SubmissionChecks(p) ==
  IF p.message = None \/ p.executionPayload = None
    THEN [code |-> 400, msg |-> "missing parts of the payload"]
  ELSE IF GetBlockBuilderStatus(p.message.builderPubkey).isBlacklisted
    THEN [code |-> 200, msg |-> "builder is blacklisted"]
  ELSE IF ffDisableLowPrioBuilders /\ ~GetBlockBuilderStatus(p.message.builderPubkey).isHighPrio
    THEN [code |-> 200, msg |-> "rejecting low-prio builder"]
  ELSE IF p.message.slot <= headSlot
    THEN [code |-> 400, msg |-> "submission for past slot"]
  ELSE IF p.message.value = 0 \/ p.executionPayload.numTx = 0
    THEN [code |-> 200, msg |-> "block with 0 value or no txs"]
  ELSE IF VerifyBuilderBlockSubmission(p) # "nil"
    THEN [code |-> 400, msg |-> VerifyBuilderBlockSubmission(p)]
  ELSE IF ~VerifySignature(DomainBuilder, p.message.builderPubkey, p.signature)
    THEN [code |-> 400, msg |-> "invalid signature"]
  ELSE NoResp

handleSubmitNewBlock(r) ==
  /\ pc[r] = "idle"
  /\ \E in \in SubmissionInputs :
       LET p == BuilderSubmitBlockRequest(in)
           c == SubmissionChecks(p)
       IN IF c # NoResp
            THEN /\ pc' = [pc EXCEPT ![r] = "done"]
                 /\ resp' = [resp EXCEPT ![r] = c]
                 /\ UNCHANGED payload
            ELSE /\ pc' = [pc EXCEPT ![r] = "simulate"]
                 /\ payload' = [payload EXCEPT ![r] = p]
                 /\ UNCHANGED resp
  /\ ClearOut
  /\ UNCHANGED <<headSlot, flagVars, cacheVars, simErr, dbSubmissions, histVars, bidVars, deliveryVars, regVars, serviceVars>>

(***************************************************************************)
(* The submission audit row written by the deferred function.              *)
(***************************************************************************)
SubmissionEntry(p, err, isMostProfitableBlock) ==
  [builder |-> p.message.builderPubkey, slot |-> p.message.slot,
   blockHash |-> p.message.blockHash, value |-> p.message.value,
   simErr |-> err, isMostProfitable |-> isMostProfitableBlock]

SaveBuilderBlockSubmission_DropsSimError(p, err, isMostProfitableBlock) ==
  dbSubmissions' = dbSubmissions (+) SetToBag({SubmissionEntry(p, "nil", isMostProfitableBlock)})

SaveBuilderBlockSubmission(p, err, isMostProfitableBlock) ==
  dbSubmissions' = dbSubmissions (+) SetToBag({SubmissionEntry(p, err, isMostProfitableBlock)})

SimErrors == {"nil", "simulation failed", "request context closed"}

AuctionKeyOf(p) == <<p.message.slot, p.message.parentHash, p.message.proposerPubkey>>

BlockKeyOf(p) == <<p.message.slot, p.message.proposerPubkey, p.executionPayload.blockHash>>

(***************************************************************************)
(* blockSimRateLimiter.send: the simulator's verdict is the environment's. *)
(***************************************************************************)
SimulationFailed_OnlySimulatorError(err) == err = "simulation failed"

SimulationFailed(err) == err # "nil"

handleSubmitNewBlock_simulate(r) ==
  /\ pc[r] = "simulate"
  /\ \E err \in SimErrors :
       /\ simErr' = [simErr EXCEPT ![r] = err]
       /\ IF SimulationFailed(err)
            THEN /\ pc' = [pc EXCEPT ![r] = "done"]
                 /\ Respond(r, 400, err)
                 /\ SaveBuilderBlockSubmission(payload[r], err, FALSE)
                 /\ UNCHANGED passed
            ELSE /\ pc' = [pc EXCEPT ![r] = "getPrevBid"]
                 /\ passed' = IF err = "nil"
                                THEN passed \cup {<<AuctionKeyOf(payload[r]),
                                                    payload[r].message.value>>}
                                ELSE passed
                 /\ UNCHANGED <<resp, dbSubmissions>>
  /\ ClearOut
  /\ UNCHANGED <<headSlot, flagVars, cacheVars, payload, everTop, bidVars, deliveryVars, regVars, serviceVars>>

(***************************************************************************)
(* Read the current bid and decide whether this one is more profitable.    *)
(***************************************************************************)
IsMostProfitableBlock(prevBid, p) ==
  prevBid = None \/ p.message.value > prevBid.message.value

handleSubmitNewBlock_getPrevBid_NoAuditRow(r) ==
  /\ pc[r] = "getPrevBid"
  /\ LET p == payload[r]
         prevBid == GetGetHeaderResponse(cacheGetHeader, p.message.slot,
                                         p.message.parentHash, p.message.proposerPubkey)
     IN IF IsMostProfitableBlock(prevBid, p)
          THEN /\ pc' = [pc EXCEPT ![r] = "saveHeader"]
               /\ UNCHANGED <<resp, dbSubmissions>>
          ELSE /\ pc' = [pc EXCEPT ![r] = "done"]
               /\ Respond(r, 200, "block submission with same or lower value")
               /\ UNCHANGED dbSubmissions
  /\ ClearOut
  /\ UNCHANGED <<headSlot, flagVars, cacheVars, payload, simErr, histVars, bidVars, deliveryVars, regVars, serviceVars>>

handleSubmitNewBlock_getPrevBid(r) ==
  /\ pc[r] = "getPrevBid"
  /\ LET p == payload[r]
         prevBid == GetGetHeaderResponse(cacheGetHeader, p.message.slot,
                                         p.message.parentHash, p.message.proposerPubkey)
     IN IF IsMostProfitableBlock(prevBid, p)
          THEN /\ pc' = [pc EXCEPT ![r] = "saveHeader"]
               /\ UNCHANGED <<resp, dbSubmissions>>
          ELSE /\ pc' = [pc EXCEPT ![r] = "done"]
               /\ Respond(r, 200, "block submission with same or lower value")
               /\ SaveBuilderBlockSubmission(p, simErr[r], FALSE)
  /\ ClearOut
  /\ UNCHANGED <<headSlot, flagVars, cacheVars, payload, simErr, histVars, bidVars, deliveryVars, regVars, serviceVars>>

(***************************************************************************)
(* Datastore.SaveBlockSubmission: the signed header goes to the top-bid    *)
(* slot, then the execution payload goes to the escrow.                    *)
(***************************************************************************)
SignedBuilderBidOf(p) ==
  BuilderSubmitBlockRequestToSignedBuilderBid(p, RelayKey, RelayKey, DomainBuilder)

StoredBids ==
  {SignedBuilderBidOf(BuilderSubmitBlockRequest(in)) :
     in \in {x \in SubmissionInputs : x.defect = "ok"}}

SaveBlockSubmission_header_PayloadFirst(r) ==
  /\ pc[r] = "saveHeader"
  /\ LET p == payload[r]
     IN cacheGetPayload' = SaveGetPayloadResponse(cacheGetPayload, p.message.slot,
                             p.message.proposerPubkey, p.executionPayload)
  /\ pc' = [pc EXCEPT ![r] = "savePayload"]
  /\ ClearOut
  /\ UNCHANGED <<headSlot, flagVars, cacheGetHeader, payload, simErr, resp,
                 dbSubmissions, histVars, bidVars, deliveryVars, regVars, serviceVars>>

SaveBlockSubmission_header(r) ==
  /\ pc[r] = "saveHeader"
  /\ LET p == payload[r]
         signedBuilderBid == SignedBuilderBidOf(p)
     IN /\ cacheGetHeader' = SaveGetHeaderResponse(cacheGetHeader, p.message.slot,
                               p.message.parentHash, p.message.proposerPubkey,
                               signedBuilderBid)
        /\ everTop' = everTop \cup
             {<<k, cacheGetHeader'[k].message.header.blockHash>> :
                k \in {x \in AuctionKeys : cacheGetHeader'[x] # None}}
  /\ pc' = [pc EXCEPT ![r] = "savePayload"]
  /\ ClearOut
  /\ UNCHANGED <<headSlot, flagVars, cacheGetPayload, payload, simErr, resp,
                 dbSubmissions, passed, bidVars, deliveryVars, regVars, serviceVars>>

SaveBlockSubmission_payload(r) ==
  /\ pc[r] = "savePayload"
  /\ LET p == payload[r]
     IN /\ cacheGetPayload' = SaveGetPayloadResponse(cacheGetPayload, p.message.slot,
                                p.message.proposerPubkey, p.executionPayload)
        /\ SaveBuilderBlockSubmission(p, simErr[r], TRUE)
  /\ pc' = [pc EXCEPT ![r] = "done"]
  /\ Respond(r, 200, "received block from builder")
  /\ ClearOut
  /\ UNCHANGED <<headSlot, flagVars, cacheGetHeader, payload, simErr, histVars, bidVars, deliveryVars, regVars, serviceVars>>

(***************************************************************************)
(* The slot clock: a head event for a slot above headSlot moves headSlot   *)
(* there and starts a refresh of the proposer duties in the background; an *)
(* event for any other slot is ignored.                                    *)
(***************************************************************************)
processNewSlot_AnySlot(slot) ==
  /\ slot # headSlot
  /\ headSlot' = slot
  /\ dutiesTasks' = dutiesTasks \cup {[headSlot |-> slot, pc |-> "start"]}
  /\ ClearOut
  /\ UNCHANGED <<flagVars, cacheVars, pc, payload, simErr, resp, dbSubmissions,
                 histVars, bidVars, deliveryVars, regVars, startupVars,
                 builderStatusUpdate, limiterVars, isUpdatingProposerDuties,
                 proposerDutiesSlot, proposerDutiesResponse, headEventVars>>

processNewSlot(slot) ==
  /\ slot > headSlot
  /\ headSlot' = slot
  /\ dutiesTasks' = dutiesTasks \cup {[headSlot |-> slot, pc |-> "start"]}
  /\ ClearOut
  /\ UNCHANGED <<flagVars, cacheVars, pc, payload, simErr, resp, dbSubmissions,
                 histVars, bidVars, deliveryVars, regVars, startupVars,
                 builderStatusUpdate, limiterVars, isUpdatingProposerDuties,
                 proposerDutiesSlot, proposerDutiesResponse, headEventVars>>

(***************************************************************************)
(* The periodic cleanup of bids and blocks of past slots.                  *)
(***************************************************************************)
CleanupOldBidsAndBlocks_AtOrBelow(slot) ==
  /\ \/ \E k \in AuctionKeys : k[1] <= slot /\ cacheGetHeader[k] # None
     \/ \E k \in BlockKeys : k[1] <= slot /\ cacheGetPayload[k] # None
  /\ cacheGetHeader' = [k \in AuctionKeys |->
                          IF k[1] <= slot THEN None ELSE cacheGetHeader[k]]
  /\ cacheGetPayload' = [k \in BlockKeys |->
                           IF k[1] <= slot THEN None ELSE cacheGetPayload[k]]
  /\ ClearOut
  /\ UNCHANGED <<headSlot, flagVars, pc, payload, simErr, resp, dbSubmissions,
                 histVars, bidVars, deliveryVars, regVars, serviceVars>>

CleanupOldBidsAndBlocks(slot) ==
  /\ \/ \E k \in AuctionKeys : k[1] < slot /\ cacheGetHeader[k] # None
     \/ \E k \in BlockKeys : k[1] < slot /\ cacheGetPayload[k] # None
  /\ cacheGetHeader' = [k \in AuctionKeys |->
                          IF k[1] < slot THEN None ELSE cacheGetHeader[k]]
  /\ cacheGetPayload' = [k \in BlockKeys |->
                           IF k[1] < slot THEN None ELSE cacheGetPayload[k]]
  /\ ClearOut
  /\ UNCHANGED <<headSlot, flagVars, pc, payload, simErr, resp, dbSubmissions,
                 histVars, bidVars, deliveryVars, regVars, serviceVars>>

Next ==
  \/ \E r \in Reqs : handleSubmitNewBlock(r)
  \/ \E r \in Reqs : handleSubmitNewBlock_simulate(r)
  \/ \E r \in Reqs : handleSubmitNewBlock_getPrevBid(r)
  \/ \E r \in Reqs : SaveBlockSubmission_header(r)
  \/ \E r \in Reqs : SaveBlockSubmission_payload(r)
  \/ \E slot \in Slots : processNewSlot(slot)
  \/ CleanupOldBidsAndBlocks(headSlot)

Spec == Init /\ [][Next]_vars


(***************************************************************************)
(* handleGetHeader.  The variable out shows one request and its response   *)
(* until the relay takes its next step.                                    *)
(***************************************************************************)
GetHeaderRequests == [slot : Slots, parentHash : ParentHashes, pubkey : Validators]

GetHeaderResponseOf_HeadSlotTooOld(req) ==
  LET bid == GetGetHeaderResponse(cacheGetHeader, req.slot, req.parentHash, req.pubkey)
  IN IF req.slot <= headSlot
       THEN [code |-> 400, msg |-> "slot is too old", body |-> None]
     ELSE IF ffForceGetHeader204
       THEN [code |-> 204, msg |-> "forced getHeader 204 response", body |-> None]
     ELSE IF bid = None
       THEN [code |-> 204, msg |-> "", body |-> None]
     ELSE IF bid.message.value = 0
       THEN [code |-> 204, msg |-> "", body |-> None]
     ELSE [code |-> 200, msg |-> "bid delivered", body |-> bid]

GetHeaderResponseFor_ZeroValueServed(req, bid) ==
  IF req.slot < headSlot
    THEN [code |-> 400, msg |-> "slot is too old", body |-> None]
  ELSE IF ffForceGetHeader204
    THEN [code |-> 204, msg |-> "forced getHeader 204 response", body |-> None]
  ELSE IF bid = None
    THEN [code |-> 204, msg |-> "", body |-> None]
  ELSE [code |-> 200, msg |-> "bid delivered", body |-> bid]

GetHeaderResponseFor_NoSlotCheck(req, bid) ==
  IF ffForceGetHeader204
    THEN [code |-> 204, msg |-> "forced getHeader 204 response", body |-> None]
  ELSE IF bid = None
    THEN [code |-> 204, msg |-> "", body |-> None]
  ELSE IF bid.message.value = 0
    THEN [code |-> 204, msg |-> "", body |-> None]
  ELSE [code |-> 200, msg |-> "bid delivered", body |-> bid]

GetHeaderResponseFor(req, bid) ==
  IF req.slot < headSlot
    THEN [code |-> 400, msg |-> "slot is too old", body |-> None]
  ELSE IF ffForceGetHeader204
    THEN [code |-> 204, msg |-> "forced getHeader 204 response", body |-> None]
  ELSE IF bid = None
    THEN [code |-> 204, msg |-> "", body |-> None]
  ELSE IF bid.message.value = 0
    THEN [code |-> 204, msg |-> "", body |-> None]
  ELSE [code |-> 200, msg |-> "bid delivered", body |-> bid]

GetHeaderResponseOf(req) ==
  GetHeaderResponseFor(req, GetGetHeaderResponse(cacheGetHeader, req.slot,
                                                 req.parentHash, req.pubkey))

handleGetHeader(req) ==
  /\ out = NoOut
  /\ LET res == GetHeaderResponseOf(req)
     IN out' = [op |-> "getHeader", req |-> req, code |-> res.code,
                msg |-> res.msg, body |-> res.body]
  /\ outPrev' = NoOut
  /\ UNCHANGED <<headSlot, flagVars, cacheVars, pc, payload, simErr, resp,
                 dbSubmissions, histVars, bidVars, deliveryVars, regVars, serviceVars>>

(***************************************************************************)
(* handleGetPayload, up to the response.                                   *)
(***************************************************************************)
SignedBlindedBeaconBlocks ==
  [slot : Slots, proposerIndex : ValidatorIndices, blockHash : BlockHashes,
   signature : [signer : Validators, domain : Domains]]

GetPayloadResponseOf_NoSignatureCheck(blk) ==
  LET proposer == GetKnownValidatorPubkeyByIndex(blk.proposerIndex)
      getPayloadResp == GetGetPayloadResponse(cacheGetPayload, blk.slot,
                                              proposer.pubkey, blk.blockHash)
  IN IF ~proposer.found
       THEN [code |-> 400, msg |-> "could not match proposer index to pubkey",
             body |-> None]
     ELSE IF getPayloadResp = None
       THEN [code |-> 400, msg |-> "no execution payload for this request",
             body |-> None]
     ELSE [code |-> 200, msg |-> "execution payload delivered", body |-> getPayloadResp]

GetPayloadResponseOf_UnknownIndexNotRefused(blk) ==
  LET proposer == GetKnownValidatorPubkeyByIndex(blk.proposerIndex)
      getPayloadResp == GetGetPayloadResponse_AnyProposer(cacheGetPayload, blk.slot,
                                                          proposer.pubkey, blk.blockHash)
  IN IF proposer.found
          /\ ~VerifySignature(DomainBeaconProposer, proposer.pubkey, blk.signature)
       THEN [code |-> 400, msg |-> "could not verify payload signature", body |-> None]
     ELSE IF getPayloadResp = None
       THEN [code |-> 400, msg |-> "no execution payload for this request",
             body |-> None]
     ELSE [code |-> 200, msg |-> "execution payload delivered", body |-> getPayloadResp]

GetPayloadResponseOf(blk) ==
  LET proposer == GetKnownValidatorPubkeyByIndex(blk.proposerIndex)
      getPayloadResp == GetGetPayloadResponse(cacheGetPayload, blk.slot,
                                              proposer.pubkey, blk.blockHash)
  IN IF ~proposer.found
       THEN [code |-> 400, msg |-> "could not match proposer index to pubkey",
             body |-> None]
     ELSE IF ~VerifySignature(DomainBeaconProposer, proposer.pubkey, blk.signature)
       THEN [code |-> 400, msg |-> "could not verify payload signature", body |-> None]
     ELSE IF getPayloadResp = None
       THEN [code |-> 400, msg |-> "no execution payload for this request",
             body |-> None]
     ELSE [code |-> 200, msg |-> "execution payload delivered", body |-> getPayloadResp]

handleGetPayload_DeleteOnRead(blk) ==
  /\ \/ out = NoOut
     \/ out.op = "getPayload" /\ out.req = blk /\ outPrev = NoOut
  /\ LET res == GetPayloadResponseOf(blk)
         bk == <<blk.slot, GetKnownValidatorPubkeyByIndex(blk.proposerIndex).pubkey,
                 blk.blockHash>>
     IN /\ out' = [op |-> "getPayload", req |-> blk, code |-> res.code,
                   msg |-> res.msg, body |-> res.body]
        /\ outPrev' = out
        /\ IF res.code = 200
             THEN /\ bgSaveDelivered' = bgSaveDelivered \cup {bk}
                  /\ bgPublishBlock' = bgPublishBlock \cup {bk}
                  /\ cacheGetPayload' = [cacheGetPayload EXCEPT ![bk] = None]
             ELSE UNCHANGED <<bgSaveDelivered, bgPublishBlock, cacheGetPayload>>
  /\ UNCHANGED <<headSlot, flagVars, cacheGetHeader, pc, payload, simErr, resp,
                 dbSubmissions, histVars, bidVars, regVars, serviceVars, ffDisableBlockPublishing,
                 dbDeliveredPayloads, publishedBlocks>>

handleGetPayload(blk) ==
  /\ \/ out = NoOut
     \/ out.op = "getPayload" /\ out.req = blk /\ outPrev = NoOut
  /\ LET res == GetPayloadResponseOf(blk)
         bk == <<blk.slot, GetKnownValidatorPubkeyByIndex(blk.proposerIndex).pubkey,
                 blk.blockHash>>
     IN /\ out' = [op |-> "getPayload", req |-> blk, code |-> res.code,
                   msg |-> res.msg, body |-> res.body]
        /\ outPrev' = out
        /\ IF res.code = 200
             THEN /\ bgSaveDelivered' = bgSaveDelivered \cup {bk}
                  /\ bgPublishBlock' = bgPublishBlock \cup {bk}
             ELSE UNCHANGED <<bgSaveDelivered, bgPublishBlock>>
  /\ UNCHANGED <<headSlot, flagVars, cacheVars, pc, payload, simErr, resp,
                 dbSubmissions, histVars, bidVars, regVars, serviceVars, ffDisableBlockPublishing,
                 dbDeliveredPayloads, publishedBlocks>>

(***************************************************************************)
(* The two goroutines handleGetPayload starts after it has responded.      *)
(***************************************************************************)
SaveDeliveredPayload(bk) ==
  /\ bk \in bgSaveDelivered
  /\ bgSaveDelivered' = bgSaveDelivered \ {bk}
  /\ dbDeliveredPayloads' = dbDeliveredPayloads \cup {bk}
  /\ ClearOut
  /\ UNCHANGED <<headSlot, flagVars, cacheVars, pc, payload, simErr, resp,
                 dbSubmissions, histVars, bidVars, regVars, serviceVars, ffDisableBlockPublishing,
                 bgPublishBlock, publishedBlocks>>

PublishBlock(bk) ==
  /\ bk \in bgPublishBlock
  /\ bgPublishBlock' = bgPublishBlock \ {bk}
  /\ publishedBlocks' = IF ffDisableBlockPublishing
                           THEN publishedBlocks
                           ELSE publishedBlocks \cup {bk}
  /\ ClearOut
  /\ UNCHANGED <<headSlot, flagVars, cacheVars, pc, payload, simErr, resp,
                 dbSubmissions, histVars, bidVars, regVars, serviceVars, ffDisableBlockPublishing,
                 bgSaveDelivered, dbDeliveredPayloads>>

(***************************************************************************)
(* The cache drops an entry expiryBidCache after it was written.  Header   *)
(* and payload are written with the same lifetime, the header first, so a  *)
(* payload does not expire while a header stored for its block is alive.   *)
(***************************************************************************)
ExpireGetHeaderResponse(k) ==
  /\ cacheGetHeader[k] # None
  /\ cacheGetHeader' = [cacheGetHeader EXCEPT ![k] = None]
  /\ ClearOut
  /\ UNCHANGED <<headSlot, flagVars, cacheGetPayload, pc, payload, simErr, resp,
                 dbSubmissions, histVars, bidVars, deliveryVars, regVars, serviceVars>>

ExpireGetPayloadResponse(bk) ==
  /\ cacheGetPayload[bk] # None
  /\ \A k \in AuctionKeys :
       ~(/\ cacheGetHeader[k] # None
         /\ k[1] = bk[1] /\ k[3] = bk[2]
         /\ cacheGetHeader[k].message.header.blockHash = bk[3])
  /\ cacheGetPayload' = [cacheGetPayload EXCEPT ![bk] = None]
  /\ ClearOut
  /\ UNCHANGED <<headSlot, flagVars, cacheGetHeader, pc, payload, simErr, resp,
                 dbSubmissions, histVars, bidVars, deliveryVars, regVars, serviceVars>>

(***************************************************************************)
(* The proposer side: one builder submission in flight, the proposer       *)
(* endpoints, and the expiry of cache entries.                             *)
(***************************************************************************)
InitProposer ==
  /\ InitRelay
  /\ ffForceGetHeader204 \in BOOLEAN
  /\ ffDisableLowPrioBuilders = FALSE
  /\ pc = [r \in Reqs |-> IF r = "r1" THEN "idle" ELSE "done"]
  /\ InitBidVars
  /\ InitRegVars
  /\ InitServiceVars

NextProposer ==
  \/ Next
  \/ \E req \in GetHeaderRequests : handleGetHeader(req)
  \/ \E blk \in SignedBlindedBeaconBlocks : handleGetPayload(blk)
  \/ \E bk \in BlockKeys : SaveDeliveredPayload(bk)
  \/ \E bk \in BlockKeys : PublishBlock(bk)
  \/ \E k \in AuctionKeys : ExpireGetHeaderResponse(k)
  \/ \E bk \in BlockKeys : ExpireGetPayloadResponse(bk)

SpecProposer == InitProposer /\ [][NextProposer]_vars


(***************************************************************************)
(* RedisCache.SaveBidAndUpdateTopBid for one AuctionKey.  bidValues holds  *)
(* the latest saved bid of each builder (0: none), topBid the stored top.  *)
(***************************************************************************)
BidValues == 1..MaxBidValue

IsBidRejected_IgnoringCancellation(value, isCancellationEnabled, prevTopBid) ==
  ~(value > prevTopBid.value)

IsBidRejected(value, isCancellationEnabled, prevTopBid) ==
  ~isCancellationEnabled /\ ~(value > prevTopBid.value)

GetTopBid_NeverLower(bids, prevTopBid, builder) ==
  IF bids[builder] > prevTopBid.value
    THEN [builder |-> builder, value |-> bids[builder]]
    ELSE prevTopBid

GetTopBid(bids, prevTopBid, builder) ==
  LET best == Max({bids[b] : b \in Builders})
  IN IF prevTopBid.builder # "" /\ bids[prevTopBid.builder] = best
       THEN [builder |-> prevTopBid.builder, value |-> best]
     ELSE IF bids[builder] = best
       THEN [builder |-> builder, value |-> best]
     ELSE [builder |-> CHOOSE b \in Builders : bids[b] = best, value |-> best]

SaveBidAndUpdateTopBid(builder, value, isCancellationEnabled) ==
  /\ nBids < MaxBids
  /\ nBids' = nBids + 1
  /\ bidReq' = [builder |-> builder, value |-> value,
                isCancellationEnabled |-> isCancellationEnabled,
                prevTopBid |-> topBid, prevBidValues |-> bidValues]
  /\ IF IsBidRejected(value, isCancellationEnabled, topBid)
       THEN /\ bidResp' = [WasBidSaved |-> FALSE, WasTopBidUpdated |-> FALSE,
                           IsNewTopBid |-> FALSE, TopBidValue |-> topBid.value,
                           TopBidBuilder |-> topBid.builder,
                           PrevTopBidValue |-> topBid.value]
            /\ UNCHANGED <<bidValues, topBid>>
       ELSE LET bids == [bidValues EXCEPT ![builder] = value]
                top == GetTopBid(bids, topBid, builder)
                updated == top # topBid \/ builder = topBid.builder
            IN /\ bidValues' = bids
               /\ topBid' = top
               /\ bidResp' = [WasBidSaved |-> TRUE, WasTopBidUpdated |-> updated,
                              IsNewTopBid |-> updated /\ top.builder = builder,
                              TopBidValue |-> top.value, TopBidBuilder |-> top.builder,
                              PrevTopBidValue |-> topBid.value]
  /\ UNCHANGED <<relayVars, deliveryVars, regVars, serviceVars>>

NextBids ==
  \E builder \in Builders, value \in BidValues, isCancellationEnabled \in BOOLEAN :
    SaveBidAndUpdateTopBid(builder, value, isCancellationEnabled)

SpecBids == Init /\ [][NextBids]_vars


(***************************************************************************)
(* handleInternalBuilderStatus (POST): the operator sets a builder's       *)
(* status; blacklisted takes precedence over high-prio.                    *)
(***************************************************************************)
BlockBuilderStatusOf_HighPrioFirst(isHighPrio, isBlacklisted) ==
  IF isHighPrio THEN RedisBlockBuilderStatusHighPrio
  ELSE IF isBlacklisted THEN RedisBlockBuilderStatusBlacklisted
  ELSE ""

BlockBuilderStatusOf(isHighPrio, isBlacklisted) ==
  IF isBlacklisted THEN RedisBlockBuilderStatusBlacklisted
  ELSE IF isHighPrio THEN RedisBlockBuilderStatusHighPrio
  ELSE ""

handleInternalBuilderStatus(builderPubkey, isHighPrio, isBlacklisted) ==
  /\ LET status == BlockBuilderStatusOf(isHighPrio, isBlacklisted)
     IN /\ builderStatus' = [builderStatus EXCEPT ![builderPubkey] = status]
        /\ builderStatusUpdate' = [builderPubkey |-> builderPubkey,
                                   isHighPrio |-> isHighPrio,
                                   isBlacklisted |-> isBlacklisted,
                                   newStatus |-> status]
  /\ ClearOut
  /\ UNCHANGED <<headSlot, ffForceGetHeader204, ffDisableLowPrioBuilders, cacheVars, pc,
                 payload, simErr, resp, dbSubmissions, histVars, bidVars, deliveryVars,
                 regVars, startupVars, limiterVars, dutiesVars, headEventVars>>

InitBuilder ==
  /\ InitRelay
  /\ ffForceGetHeader204 = FALSE
  /\ ffDisableLowPrioBuilders \in BOOLEAN
  /\ pc = [r \in Reqs |-> IF r = "r1" THEN "idle" ELSE "done"]
  /\ InitBidVars
  /\ InitRegVars
  /\ InitServiceVars

NextBuilder ==
  \/ Next
  \/ \E builderPubkey \in Builders, isHighPrio \in BOOLEAN, isBlacklisted \in BOOLEAN :
       handleInternalBuilderStatus(builderPubkey, isHighPrio, isBlacklisted)

SpecBuilder == InitBuilder /\ [][NextBuilder]_vars

(***************************************************************************)
(* handleRegisterValidator.  A request walks through its batch one entry   *)
(* at a time; an entry that passes is saved by a goroutine of its own.     *)
(* Times are in seconds.                                                   *)
(***************************************************************************)
RegistrationWindow == 10

StartTimes == {1, 2}

Timestamps == {1, 2, 12}

RegPubkeys == {"v1", "vX"}

SignedValidatorRegistrations ==
  [message : {None} \cup [pubkey : RegPubkeys, timestamp : Timestamps],
   signature : {"ok", "bad", "err"}]

IsKnownValidator(pubkey) ==
  \E index \in DOMAIN KnownValidatorsByIndex : KnownValidatorsByIndex[index] = pubkey

GetValidatorRegistrationTimestamp(pubkey) ==
  IF pubkey \in DOMAIN regTimestamp
    THEN regTimestamp[pubkey]
    ELSE 0

registrationTimeUpperBound(start) == start + RegistrationWindow

RegistrationTooFarInFuture_Never(timestamp, start) == FALSE

RegistrationTooFarInFuture(timestamp, start) ==
  timestamp > registrationTimeUpperBound(start)

RegistrationCheck(registration, start) ==
  IF registration.message = None
    THEN [code |-> 400, msg |-> "registration without message"]
  ELSE IF RegistrationTooFarInFuture(registration.message.timestamp, start)
    THEN [code |-> 400, msg |-> "timestamp too far in the future"]
  ELSE IF ~IsKnownValidator(registration.message.pubkey)
    THEN [code |-> 400, msg |-> "not a known validator"]
  ELSE IF GetValidatorRegistrationTimestamp(registration.message.pubkey)
            >= registration.message.timestamp
    THEN [code |-> 0, msg |-> "continue"]
  ELSE IF registration.signature = "err"
    THEN [code |-> 0, msg |-> "continue"]
  ELSE IF registration.signature # "ok"
    THEN [code |-> 400, msg |-> "failed to verify validator signature"]
  ELSE [code |-> 0, msg |-> "save"]

handleRegisterValidator(q) ==
  /\ regPc[q] = "idle"
  /\ \E start \in StartTimes : regStart' = [regStart EXCEPT ![q] = start]
  /\ regPc' = [regPc EXCEPT ![q] = "loop"]
  /\ UNCHANGED <<relayVars, bidVars, deliveryVars, serviceVars, regTimestamp, regEntry, regN,
                 regResp, bgReg, persisted, tsSupplied, tsLast>>

handleRegisterValidator_entry(q) ==
  /\ regPc[q] = "loop"
  /\ regN[q] < MaxBatch
  /\ regN' = [regN EXCEPT ![q] = regN[q] + 1]
  /\ \E registration \in SignedValidatorRegistrations :
       LET c == RegistrationCheck(registration, regStart[q])
       IN IF c.code = 400
            THEN /\ regResp' = [regResp EXCEPT ![q] = c]
                 /\ regPc' = [regPc EXCEPT ![q] = "done"]
                 /\ UNCHANGED bgReg
          ELSE IF c.msg = "continue"
            THEN UNCHANGED <<regResp, regPc, bgReg>>
          ELSE /\ bgReg' = bgReg \cup {[req |-> q, idx |-> regN[q] + 1,
                                         reg |-> registration, step |-> "timestamp"]}
               /\ UNCHANGED <<regResp, regPc>>
  /\ UNCHANGED <<relayVars, bidVars, deliveryVars, serviceVars, regTimestamp, regEntry, regStart,
                 persisted, tsSupplied, tsLast>>

handleRegisterValidator_end(q) ==
  /\ regPc[q] = "loop"
  /\ regPc' = [regPc EXCEPT ![q] = "done"]
  /\ regResp' = [regResp EXCEPT ![q] = [code |-> 200, msg |-> ""]]
  /\ UNCHANGED <<relayVars, bidVars, deliveryVars, serviceVars, regTimestamp, regEntry, regStart,
                 regN, bgReg, persisted, tsSupplied, tsLast>>

(***************************************************************************)
(* RedisCache.SetValidatorRegistration: the timestamp is written to one    *)
(* hash, then the registration to the other.                               *)
(***************************************************************************)
SetValidatorRegistration_timestamp(task) ==
  /\ task \in bgReg
  /\ task.step = "timestamp"
  /\ regTimestamp' = (task.reg.message.pubkey :> task.reg.message.timestamp)
                         @@ regTimestamp
  /\ bgReg' = (bgReg \ {task}) \cup {[task EXCEPT !.step = "registration"]}
  /\ persisted' = persisted \cup {[req |-> task.req, idx |-> task.idx, reg |-> task.reg]}
  /\ UNCHANGED <<relayVars, bidVars, deliveryVars, serviceVars, regEntry, regPc, regStart, regN,
                 regResp, tsSupplied, tsLast>>

SetValidatorRegistration_registration(task) ==
  /\ task \in bgReg
  /\ task.step = "registration"
  /\ regEntry' = [regEntry EXCEPT ![task.reg.message.pubkey] = task.reg]
  /\ bgReg' = bgReg \ {task}
  /\ UNCHANGED <<relayVars, bidVars, deliveryVars, serviceVars, regTimestamp, regPc, regStart, regN,
                 regResp, persisted, tsSupplied, tsLast>>

RegTasks ==
  [req : RegReqs, idx : 1..MaxBatch,
   reg : [message : [pubkey : RegPubkeys, timestamp : Timestamps], signature : {"ok"}],
   step : {"timestamp", "registration"}]

NextRegister ==
  \/ \E q \in RegReqs : handleRegisterValidator(q)
  \/ \E q \in RegReqs : handleRegisterValidator_entry(q)
  \/ \E q \in RegReqs : handleRegisterValidator_end(q)
  \/ \E task \in RegTasks : SetValidatorRegistration_timestamp(task)
  \/ \E task \in RegTasks : SetValidatorRegistration_registration(task)

SpecRegister == Init /\ [][NextRegister]_vars

(***************************************************************************)
(* RedisCache.SetValidatorRegistrationTimestampIfNewer.                    *)
(***************************************************************************)
IsNewerTimestamp_Always(timestamp, prevTimestamp) == TRUE

IsNewerTimestamp(timestamp, prevTimestamp) == timestamp > prevTimestamp

SetValidatorRegistrationTimestampIfNewer(pubkey, timestamp) ==
  /\ regTimestamp' =
       IF IsNewerTimestamp(timestamp, GetValidatorRegistrationTimestamp(pubkey))
         THEN (pubkey :> timestamp) @@ regTimestamp
         ELSE regTimestamp
  /\ tsLast' = [pubkey |-> pubkey, timestamp |-> timestamp, err |-> "nil",
                prevTimestamp |-> GetValidatorRegistrationTimestamp(pubkey)]
  /\ tsSupplied' = tsSupplied \cup {<<pubkey, timestamp>>}
  /\ UNCHANGED <<relayVars, bidVars, deliveryVars, serviceVars, regEntry, regPc, regStart, regN,
                 regResp, bgReg, persisted>>

NextTimestamp ==
  \E pubkey \in Validators, timestamp \in Timestamps :
    SetValidatorRegistrationTimestampIfNewer(pubkey, timestamp)

SpecTimestamp == Init /\ [][NextTimestamp]_vars

(***************************************************************************)
(* NewRelayAPI: with the block-builder API enabled, an instance reads the  *)
(* relay pubkey from the relay config, stores its own when there is none,  *)
(* and fails when the stored one differs from its own.                     *)
(***************************************************************************)
PublicKeyFromSecretKey(sk) == <<"pub", sk>>

GetRelayConfig == relayConfigPubkey

NewRelayAPI(i, blockBuilderAPI, sk) ==
  /\ relayInstances[i].pc = "new"
  /\ relayInstances' = [relayInstances EXCEPT ![i] =
       IF blockBuilderAPI
         THEN [pc |-> "read", blockBuilderAPI |-> TRUE,
               publicKey |-> PublicKeyFromSecretKey(sk),
               pubkeyRead |-> GetRelayConfig, err |-> ""]
         ELSE [pc |-> "done", blockBuilderAPI |-> FALSE, publicKey |-> "",
               pubkeyRead |-> "", err |-> "nil"]]
  /\ UNCHANGED <<relayVars, bidVars, deliveryVars, regVars, relayConfigPubkey,
                 builderStatusUpdate, limiterVars, dutiesVars, headEventVars>>

NewRelayAPI_checkPubkey(i) ==
  /\ relayInstances[i].pc = "read"
  /\ LET inst == relayInstances[i]
     IN IF inst.pubkeyRead = ""
          THEN /\ relayConfigPubkey' = inst.publicKey
               /\ relayInstances' = [relayInstances EXCEPT ![i].pc = "done",
                                                           ![i].err = "nil"]
        ELSE IF inst.pubkeyRead # inst.publicKey
          THEN /\ relayInstances' = [relayInstances EXCEPT
                                       ![i].pc = "done",
                                       ![i].err = "ErrRelayPubkeyMismatch"]
               /\ UNCHANGED relayConfigPubkey
        ELSE /\ relayInstances' = [relayInstances EXCEPT ![i].pc = "done",
                                                         ![i].err = "nil"]
             /\ UNCHANGED relayConfigPubkey
  /\ UNCHANGED <<relayVars, bidVars, deliveryVars, regVars, builderStatusUpdate,
                 limiterVars, dutiesVars, headEventVars>>

NextStartup ==
  \/ \E i \in Instances, blockBuilderAPI \in BOOLEAN, sk \in SecretKeys :
       NewRelayAPI(i, blockBuilderAPI, sk)
  \/ \E i \in Instances : NewRelayAPI_checkPubkey(i)

SpecStartup == Init /\ [][NextStartup]_vars

(***************************************************************************)
(* BlockSimulationRateLimiter.send.  The mutex cv.L makes each locked      *)
(* section one step.  cv.Wait puts the caller at the end of the list of    *)
(* waiters and blocks it until a cv.Signal takes it from the head of the   *)
(* list; it does not look at the request's context.                        *)
(***************************************************************************)
ErrRequestClosed == "request context closed"
SimResults == {"nil", "simulation failed", "jsonrpc error"}

MustWait_Never(cnt) == FALSE

MustWait(cnt) == cnt > maxConcurrentBlocks

Signal_WakesNobody(waiters) == waiters

Signal(waiters) == IF waiters = <<>> THEN waiters ELSE Tail(waiters)

Waiting(waiters) == {waiters[n] : n \in 1..Len(waiters)}

otherVars == <<relayVars, bidVars, deliveryVars, regVars, startupVars, builderStatusUpdate,
               dutiesVars, headEventVars>>

\* Lock, add one to the counter, and wait if it is now above the limit.
send(r, cancelled) ==
  /\ simPc[r] \in {"idle", "returned"}
  /\ LET cnt == counter + 1
     IN /\ counter' = cnt
        /\ IF MustWait(cnt)
             THEN /\ simPc' = [simPc EXCEPT ![r] = "wait"]
                  /\ cvWaiters' = Append(cvWaiters, r)
             ELSE /\ simPc' = [simPc EXCEPT ![r] = "admitted"]
                  /\ UNCHANGED cvWaiters
  /\ simCancelled' = [simCancelled EXCEPT ![r] = cancelled]
  /\ simResult' = [simResult EXCEPT ![r] = ""]
  /\ UNCHANGED otherVars

\* A signalled waiter takes the lock again, returns from cv.Wait and unlocks.
send_wake(r) ==
  /\ simPc[r] = "awoken"
  /\ simPc' = [simPc EXCEPT ![r] = "admitted"]
  /\ UNCHANGED <<otherVars, counter, cvWaiters, simCancelled, simResult>>

\* The request's context is cancelled by its client.
cancel(r) ==
  /\ simPc[r] \in {"wait", "awoken", "admitted"}
  /\ ~simCancelled[r]
  /\ simCancelled' = [simCancelled EXCEPT ![r] = TRUE]
  /\ UNCHANGED <<otherVars, counter, cvWaiters, simPc, simResult>>

send_checkContext_ReturnsWithoutRelease(r) ==
  /\ simPc[r] = "admitted"
  /\ IF simCancelled[r]
       THEN /\ simPc' = [simPc EXCEPT ![r] = "returned"]
            /\ simResult' = [simResult EXCEPT ![r] = ErrRequestClosed]
       ELSE /\ simPc' = [simPc EXCEPT ![r] = "simulating"]
            /\ UNCHANGED simResult
  /\ UNCHANGED <<otherVars, counter, cvWaiters, simCancelled>>

\* context.Err() is looked at once, after admission; then the call is sent.
send_checkContext(r) ==
  /\ simPc[r] = "admitted"
  /\ IF simCancelled[r]
       THEN /\ simPc' = [simPc EXCEPT ![r] = "release"]
            /\ simResult' = [simResult EXCEPT ![r] = ErrRequestClosed]
       ELSE /\ simPc' = [simPc EXCEPT ![r] = "simulating"]
            /\ UNCHANGED simResult
  /\ UNCHANGED <<otherVars, counter, cvWaiters, simCancelled>>

\* The JSON-RPC call to the simulator returns.
send_SendJSONRPCRequest(r) ==
  /\ simPc[r] = "simulating"
  /\ \E err \in SimResults : simResult' = [simResult EXCEPT ![r] = err]
  /\ simPc' = [simPc EXCEPT ![r] = "release"]
  /\ UNCHANGED <<otherVars, counter, cvWaiters, simCancelled>>

\* The deferred function: lock, take one from the counter, signal, unlock.
send_release(r) ==
  /\ simPc[r] = "release"
  /\ counter' = counter - 1
  /\ cvWaiters' = Signal(cvWaiters)
  /\ simPc' = [x \in SimReqs |->
                IF x = r THEN "returned"
                ELSE IF x \in Waiting(cvWaiters) \ Waiting(cvWaiters') THEN "awoken"
                ELSE simPc[x]]
  /\ UNCHANGED <<otherVars, simCancelled, simResult>>

NextLimiter ==
  \/ \E r \in SimReqs, cancelled \in BOOLEAN : send(r, cancelled)
  \/ \E r \in SimReqs : send_wake(r)
  \/ \E r \in SimReqs : cancel(r)
  \/ \E r \in SimReqs : send_checkContext(r)
  \/ \E r \in SimReqs : send_SendJSONRPCRequest(r)
  \/ \E r \in SimReqs : send_release(r)

SpecLimiter == Init /\ [][NextLimiter]_vars

\* The scheduler runs every goroutine that can take a step; whether the
\* simulator answers is up to the simulator.
RequestFairness ==
  \A r \in SimReqs :
    /\ WF_vars(send_wake(r))
    /\ WF_vars(send_checkContext(r))
    /\ WF_vars(send_release(r))

SimulatorFairness == \A r \in SimReqs : WF_vars(send_SendJSONRPCRequest(r))

SpecLimiterFair == SpecLimiter /\ RequestFairness /\ SimulatorFairness

SpecLimiterNoCompletion == SpecLimiter /\ RequestFairness

(***************************************************************************)
(* The refresh of the proposer duties.  Every head event that moves        *)
(* headSlot starts updateProposerDuties for the new slot in a goroutine of *)
(* its own; the goroutines are scheduled in any order.  A goroutine stays  *)
(* in dutiesTasks after it has returned, with the way it returned.         *)
(***************************************************************************)
DutySlots == {7, 8, 9, 17}

\* what redis.GetProposerDuties can return: the list the housekeeper wrote
RedisProposerDuties == {<<"v1">>, <<"v1", "v2">>}

DutiesTask(h, p) == [headSlot |-> h, pc |-> p]

MoveTask(t, p) == (dutiesTasks \ {t}) \cup {DutiesTask(t.headSlot, p)}

\* headSlot-api.proposerDutiesSlot is a subtraction of uint64: below zero it
\* wraps to 2^64 minus the distance, which is above 8 for every slot
RefreshDue(h, lastSlot) ==
  ~(h % 8 # 0 /\ (IF h >= lastSlot THEN h - lastSlot < 8 ELSE FALSE))

dutiesOtherVars == <<relayVars, bidVars, deliveryVars, regVars, startupVars,
                     builderStatusUpdate, limiterVars, headEventVars>>

updateProposerDuties_DeferBeforeGuard(t) ==
  /\ t \in dutiesTasks /\ t.pc = "start"
  /\ IF isUpdatingProposerDuties
       THEN /\ dutiesTasks' = MoveTask(t, "dropped")
            /\ isUpdatingProposerDuties' = FALSE
       ELSE /\ dutiesTasks' = MoveTask(t, "refresh")
            /\ isUpdatingProposerDuties' = TRUE
  /\ UNCHANGED <<proposerDutiesSlot, proposerDutiesResponse, dutiesOtherVars>>

\* isUpdatingProposerDuties.Swap(true): the invocation that finds true returns
updateProposerDuties(t) ==
  /\ t \in dutiesTasks /\ t.pc = "start"
  /\ IF isUpdatingProposerDuties
       THEN /\ dutiesTasks' = MoveTask(t, "dropped")
            /\ UNCHANGED isUpdatingProposerDuties
       ELSE /\ dutiesTasks' = MoveTask(t, "refresh")
            /\ isUpdatingProposerDuties' = TRUE
  /\ UNCHANGED <<proposerDutiesSlot, proposerDutiesResponse, dutiesOtherVars>>

\* the check of the eight slots, the read of redis and the replacement
updateProposerDuties_refresh(t, duties, err) ==
  /\ t \in dutiesTasks /\ t.pc = "refresh"
  /\ IF RefreshDue(t.headSlot, proposerDutiesSlot) /\ ~err
       THEN /\ proposerDutiesResponse' = duties
            /\ proposerDutiesSlot' = t.headSlot
       ELSE UNCHANGED <<proposerDutiesResponse, proposerDutiesSlot>>
  /\ dutiesTasks' = MoveTask(t, "release")
  /\ UNCHANGED <<isUpdatingProposerDuties, dutiesOtherVars>>

\* the deferred isUpdatingProposerDuties.Store(false)
updateProposerDuties_release(t) ==
  /\ t \in dutiesTasks /\ t.pc = "release"
  /\ isUpdatingProposerDuties' = FALSE
  /\ dutiesTasks' = MoveTask(t, "returned")
  /\ UNCHANGED <<proposerDutiesSlot, proposerDutiesResponse, dutiesOtherVars>>

NextDuties ==
  \/ \E slot \in DutySlots : processNewSlot(slot)
  \/ \E t \in dutiesTasks : updateProposerDuties(t)
  \/ \E t \in dutiesTasks, duties \in RedisProposerDuties, err \in BOOLEAN :
       updateProposerDuties_refresh(t, duties, err)
  \/ \E t \in dutiesTasks : updateProposerDuties_release(t)

SpecDuties == Init /\ [][NextDuties]_vars

(***************************************************************************)
(* SubscribeToHeadEvents of the beacon client.  A goroutine subscribes the *)
(* sse client to the head topic, trying again when the attempt ends with   *)
(* an error; once subscribed it waits for the context to be cancelled,     *)
(* unsubscribes and closes eventCh and slotC.  The calling goroutine reads *)
(* eventCh until it is closed and sends the slot of every event that       *)
(* decodes on slotC.  Both channels are unbuffered: a send and its receive *)
(* are one step.                                                           *)
(***************************************************************************)
MaxEvents == 3

\* the head events the beacon node can send: a slot, or data that does not decode
HeadEvents == {[ok |-> TRUE, slot |-> 1], [ok |-> TRUE, slot |-> 2], [ok |-> FALSE, slot |-> 0]}

headEventOtherVars == <<relayVars, bidVars, deliveryVars, regVars, startupVars,
                        builderStatusUpdate, limiterVars, dutiesVars>>

ctxCancel ==
  /\ ~ctxCancelled
  /\ ctxCancelled' = TRUE
  /\ UNCHANGED <<subPc, subscribed, eventChClosed, slotCClosed, fwdPc, fwdSlot, received,
                 delivered, headEventOtherVars>>

\* an attempt made with a cancelled context ends with the context's error
SubscribeChanRawWithContext(ok) ==
  /\ subPc = "subscribe"
  /\ ok => ~ctxCancelled
  /\ subscribed' = ok
  /\ subPc' = IF ok THEN "ctxDone" ELSE "reconnect"
  /\ UNCHANGED <<ctxCancelled, eventChClosed, slotCClosed, fwdPc, fwdSlot, received,
                 delivered, headEventOtherVars>>

\* "beaconclient subscribe to headEvents ended, reconnecting"
SubscribeToHeadEvents_reconnect ==
  /\ subPc = "reconnect"
  /\ subPc' = "subscribe"
  /\ UNCHANGED <<ctxCancelled, subscribed, eventChClosed, slotCClosed, fwdPc, fwdSlot,
                 received, delivered, headEventOtherVars>>

SubscribeToHeadEvents_ctxDone ==
  /\ subPc = "ctxDone"
  /\ ctxCancelled
  /\ subPc' = "unsubscribe"
  /\ UNCHANGED <<ctxCancelled, subscribed, eventChClosed, slotCClosed, fwdPc, fwdSlot,
                 received, delivered, headEventOtherVars>>

Unsubscribe ==
  /\ subPc = "unsubscribe"
  /\ subscribed' = FALSE
  /\ subPc' = "closeEventCh"
  /\ UNCHANGED <<ctxCancelled, eventChClosed, slotCClosed, fwdPc, fwdSlot, received,
                 delivered, headEventOtherVars>>

SubscribeToHeadEvents_closeEventCh ==
  /\ subPc = "closeEventCh"
  /\ eventChClosed' = TRUE
  /\ subPc' = "closeSlotC"
  /\ UNCHANGED <<ctxCancelled, subscribed, slotCClosed, fwdPc, fwdSlot, received,
                 delivered, headEventOtherVars>>

SubscribeToHeadEvents_closeSlotC ==
  /\ subPc = "closeSlotC"
  /\ slotCClosed' = TRUE
  /\ subPc' = "returned"
  /\ UNCHANGED <<ctxCancelled, subscribed, eventChClosed, fwdPc, fwdSlot, received,
                 delivered, headEventOtherVars>>

SubscribeToHeadEvents_receive_KeepsOldSlot(msg) ==
  /\ fwdPc = "receive"
  /\ subscribed /\ ~eventChClosed
  /\ Len(received) < MaxEvents
  /\ received' = Append(received, msg)
  /\ IF msg.ok
       THEN /\ fwdPc' = "send"
            /\ fwdSlot' = IF fwdSlot = 0 THEN msg.slot ELSE fwdSlot
       ELSE UNCHANGED <<fwdPc, fwdSlot>>
  /\ UNCHANGED <<ctxCancelled, subPc, subscribed, eventChClosed, slotCClosed, delivered,
                 headEventOtherVars>>

\* msg := <-eventCh and json.Unmarshal(msg.Data, &data)
SubscribeToHeadEvents_receive(msg) ==
  /\ fwdPc = "receive"
  /\ subscribed /\ ~eventChClosed
  /\ Len(received) < MaxEvents
  /\ received' = Append(received, msg)
  /\ IF msg.ok
       THEN /\ fwdPc' = "send"
            /\ fwdSlot' = msg.slot
       ELSE UNCHANGED <<fwdPc, fwdSlot>>
  /\ UNCHANGED <<ctxCancelled, subPc, subscribed, eventChClosed, slotCClosed, delivered,
                 headEventOtherVars>>

\* slotC <- data.Slot, taken by the consumer
SubscribeToHeadEvents_send ==
  /\ fwdPc = "send"
  /\ ~slotCClosed
  /\ delivered' = Append(delivered, fwdSlot)
  /\ fwdPc' = "receive"
  /\ UNCHANGED <<ctxCancelled, subPc, subscribed, eventChClosed, slotCClosed, fwdSlot,
                 received, headEventOtherVars>>

\* slotC <- data.Slot on the closed channel: the send panics
SubscribeToHeadEvents_sendOnClosed ==
  /\ fwdPc = "send"
  /\ slotCClosed
  /\ fwdPc' = "panicked"
  /\ UNCHANGED <<ctxCancelled, subPc, subscribed, eventChClosed, slotCClosed, fwdSlot,
                 received, delivered, headEventOtherVars>>

\* the range over eventCh ends when eventCh is closed
SubscribeToHeadEvents_return ==
  /\ fwdPc = "receive"
  /\ eventChClosed
  /\ fwdPc' = "returned"
  /\ UNCHANGED <<ctxCancelled, subPc, subscribed, eventChClosed, slotCClosed, fwdSlot,
                 received, delivered, headEventOtherVars>>

NextHeadEvents ==
  \/ ctxCancel
  \/ \E ok \in BOOLEAN : SubscribeChanRawWithContext(ok)
  \/ SubscribeToHeadEvents_reconnect
  \/ SubscribeToHeadEvents_ctxDone
  \/ Unsubscribe
  \/ SubscribeToHeadEvents_closeEventCh
  \/ SubscribeToHeadEvents_closeSlotC
  \/ \E msg \in HeadEvents : SubscribeToHeadEvents_receive(msg)
  \/ SubscribeToHeadEvents_send
  \/ SubscribeToHeadEvents_sendOnClosed
  \/ SubscribeToHeadEvents_return

SpecHeadEvents == Init /\ [][NextHeadEvents]_vars

\* every goroutine of SubscribeToHeadEvents that can take a step takes it,
\* and the consumer takes every slot that is offered to it
HeadEventsFairness ==
  /\ WF_vars(\E ok \in BOOLEAN : SubscribeChanRawWithContext(ok))
  /\ WF_vars(SubscribeToHeadEvents_reconnect)
  /\ WF_vars(SubscribeToHeadEvents_ctxDone)
  /\ WF_vars(Unsubscribe)
  /\ WF_vars(SubscribeToHeadEvents_closeEventCh)
  /\ WF_vars(SubscribeToHeadEvents_closeSlotC)
  /\ WF_vars(SubscribeToHeadEvents_send)
  /\ WF_vars(SubscribeToHeadEvents_sendOnClosed)
  /\ WF_vars(SubscribeToHeadEvents_return)

SpecHeadEventsFair == SpecHeadEvents /\ HeadEventsFairness

(***************************************************************************)
(* Properties of the proposer endpoints and of the auction.                *)
(***************************************************************************)

\* C1: handleGetPayload answers 200 with an execution payload only to a
\* request whose proposer index is in the known-validator map and whose
\* signature verifies, under the beacon-proposer domain, against the public
\* key the map gives for that index.
C1_PayloadOnlyForProposerSignature ==
  (out.op = "getPayload" /\ (out.code = 200 \/ out.body # None)) =>
    /\ out.req.proposerIndex \in DOMAIN KnownValidatorsByIndex
    /\ out.req.signature.signer = KnownValidatorsByIndex[out.req.proposerIndex]
    /\ out.req.signature.domain = DomainBeaconProposer

C1_Witness ==
  /\ out.op = "getPayload"
  /\ out.code = 200
  /\ out.body # None
  /\ out.body.blockHash = out.req.blockHash

\* C2: a header is written to the top-bid slot, and a payload to the escrow,
\* only by a submission whose message agrees with its payload in block hash,
\* parent hash and fee recipient, whose builder signature verified and whose
\* simulation succeeded; a submission answered with 400 changes neither.
C2_OnlyCheckedSubmissionsAreStored ==
  [][ /\ \A k \in AuctionKeys :
           (cacheGetHeader'[k] # cacheGetHeader[k] /\ cacheGetHeader'[k] # None) =>
             \E r \in Reqs :
               /\ payload[r] # NoPayload
               /\ AuctionKeyOf(payload[r]) = k
               /\ cacheGetHeader'[k].message.value = payload[r].message.value
               /\ cacheGetHeader'[k].message.header.blockHash = payload[r].message.blockHash
               /\ payload[r].message.blockHash = payload[r].executionPayload.blockHash
               /\ payload[r].message.parentHash = payload[r].executionPayload.parentHash
               /\ payload[r].message.proposerFeeRecipient = payload[r].executionPayload.feeRecipient
               /\ payload[r].signature.signer = payload[r].message.builderPubkey
               /\ payload[r].signature.domain = DomainBuilder
               /\ simErr[r] = "nil"
      /\ \A bk \in BlockKeys :
           (cacheGetPayload'[bk] # cacheGetPayload[bk] /\ cacheGetPayload'[bk] # None) =>
             \E r \in Reqs :
               /\ payload[r] # NoPayload
               /\ BlockKeyOf(payload[r]) = bk
               /\ cacheGetPayload'[bk] = payload[r].executionPayload
               /\ payload[r].message.blockHash = payload[r].executionPayload.blockHash
               /\ payload[r].message.parentHash = payload[r].executionPayload.parentHash
               /\ payload[r].message.proposerFeeRecipient = payload[r].executionPayload.feeRecipient
               /\ payload[r].signature.signer = payload[r].message.builderPubkey
               /\ payload[r].signature.domain = DomainBuilder
               /\ simErr[r] = "nil"
      /\ \A r \in Reqs :
           (pc[r] # "done" /\ pc'[r] = "done" /\ resp'[r].code = 400) =>
             UNCHANGED cacheVars ]_vars

C2_Witness ==
  \E r \in Reqs, q \in Reqs :
    /\ pc[r] = "done"
    /\ resp[r] = [code |-> 200, msg |-> "received block from builder"]
    /\ cacheGetHeader[AuctionKeyOf(payload[r])] = SignedBuilderBidOf(payload[r])
    /\ cacheGetPayload[BlockKeyOf(payload[r])] = payload[r].executionPayload
    /\ pc[q] = "done"
    /\ resp[q].code = 400


\* C3: once no submission is in flight, the value of the header stored for
\* an AuctionKey is the maximum value among the submissions for that key
\* that passed all checks and the simulation.
C3_TopBidIsMaxOfPassed ==
  \A k \in AuctionKeys :
    LET values == {x[2] : x \in {y \in passed : y[1] = k}}
    IN ( /\ \A r \in Reqs : pc[r] \in {"idle", "done"}
         /\ values # {}
         /\ cacheGetHeader[k] # None )
       => cacheGetHeader[k].message.value = Max(values)

\* C4: when two submissions from distinct builders with values V1 < V2 for
\* the same AuctionKey have both passed simulation and both returned, the
\* stored header has value V2.
C4_ConcurrentHigherBidWins ==
  \A r \in Reqs, q \in Reqs :
    ( /\ pc[r] = "done" /\ pc[q] = "done"
      /\ payload[r] # NoPayload /\ payload[q] # NoPayload
      /\ simErr[r] = "nil" /\ simErr[q] = "nil"
      /\ payload[r].message.builderPubkey # payload[q].message.builderPubkey
      /\ AuctionKeyOf(payload[r]) = AuctionKeyOf(payload[q])
      /\ payload[r].message.value < payload[q].message.value
      /\ cacheGetHeader[AuctionKeyOf(payload[q])] # None )
    => cacheGetHeader[AuctionKeyOf(payload[q])].message.value = payload[q].message.value

C6_HeaderImpliesPayloadInEscrow ==
  (out.op = "getHeader" /\ out.code = 200) =>
    cacheGetPayload[<<out.req.slot, out.req.pubkey,
                      out.body.message.header.blockHash>>] # None

\* C9: a submission never replaces a stored header whose value equals its
\* own: the header of the bid seen first stays.
C9_EqualValueNeverReplaces ==
  [][ \A r \in Reqs :
        ( /\ pc[r] = "saveHeader" /\ pc'[r] = "savePayload"
          /\ cacheGetHeader[AuctionKeyOf(payload[r])] # None
          /\ cacheGetHeader[AuctionKeyOf(payload[r])].message.value
               = payload[r].message.value )
        => cacheGetHeader'[AuctionKeyOf(payload[r])]
             = cacheGetHeader[AuctionKeyOf(payload[r])] ]_vars

\* C10 (as stated): after a submission with value V for AuctionKey K was
\* stored and returned, a getHeader for K whose slot is not below headSlot
\* answers 200 with value V and the submission's block hash.
C10_GetHeaderReturnsSubmission ==
  ( /\ out.op = "getHeader"
    /\ pc["r1"] = "done"
    /\ resp["r1"].msg = "received block from builder"
    /\ <<out.req.slot, out.req.parentHash, out.req.pubkey>> = AuctionKeyOf(payload["r1"])
    /\ out.req.slot >= headSlot )
  => /\ out.code = 200
     /\ out.body.message.value = payload["r1"].message.value
     /\ out.body.message.header.blockHash = payload["r1"].message.blockHash

\* C10 (amended): the same, provided FORCE_GET_HEADER_204 is not set and the
\* cached header has not expired.
C10_GetHeaderReturnsSubmissionUnlessForcedOrExpired ==
  ( /\ out.op = "getHeader"
    /\ pc["r1"] = "done"
    /\ resp["r1"].msg = "received block from builder"
    /\ <<out.req.slot, out.req.parentHash, out.req.pubkey>> = AuctionKeyOf(payload["r1"])
    /\ out.req.slot >= headSlot
    /\ ~ffForceGetHeader204
    /\ cacheGetHeader[AuctionKeyOf(payload["r1"])] # None )
  => /\ out.code = 200
     /\ out.body.message.value = payload["r1"].message.value
     /\ out.body.message.header.blockHash = payload["r1"].message.blockHash

C10_Witness ==
  /\ out.op = "getHeader"
  /\ out.code = 200
  /\ pc["r1"] = "done"
  /\ resp["r1"].msg = "received block from builder"
  /\ <<out.req.slot, out.req.parentHash, out.req.pubkey>> = AuctionKeyOf(payload["r1"])
  /\ out.req.slot = headSlot
  /\ out.body.message.value = payload["r1"].message.value


\* C7: SaveBidAndUpdateTopBid with cancellations disabled and a value not
\* above the current top saves nothing and leaves the top bid as it was; the
\* same lower value from the holder of the top with cancellations enabled is
\* saved and replaces the top, which goes down to the new value when no
\* other builder has bid.
C7_LowerBidNeedsCancellation ==
  nBids > 0 =>
    /\ ( ~bidReq.isCancellationEnabled /\ bidReq.value <= bidReq.prevTopBid.value )
       => /\ ~bidResp.WasBidSaved
          /\ ~bidResp.WasTopBidUpdated
          /\ topBid = bidReq.prevTopBid
          /\ bidValues = bidReq.prevBidValues
    /\ ( /\ bidReq.isCancellationEnabled
         /\ bidReq.builder = bidReq.prevTopBid.builder
         /\ bidReq.value < bidReq.prevTopBid.value )
       => /\ bidResp.WasBidSaved
          /\ bidResp.WasTopBidUpdated
          /\ bidValues[bidReq.builder] = bidReq.value
          /\ topBid # bidReq.prevTopBid
          /\ (\A b \in Builders \ {bidReq.builder} : bidReq.prevBidValues[b] = 0)
             => /\ topBid = [builder |-> bidReq.builder, value |-> bidReq.value]
                /\ bidResp.TopBidValue = bidReq.value
                /\ bidResp.PrevTopBidValue = bidReq.prevTopBid.value

C7_Witness ==
  /\ nBids = MaxBids
  /\ bidReq.isCancellationEnabled
  /\ bidReq.builder = bidReq.prevTopBid.builder
  /\ bidReq.value < bidReq.prevTopBid.value
  /\ bidReq.prevBidValues[bidReq.builder] = bidReq.prevTopBid.value
  /\ \A b \in Builders \ {bidReq.builder} : bidValues[b] = 0
  /\ topBid.value = bidReq.value
  /\ bidResp.IsNewTopBid

C11_PayloadMatchesBlindedBlock ==
  (out.op = "getPayload" /\ out.code = 200) =>
    /\ out.body.blockHash = out.req.blockHash
    /\ \E r \in Reqs :
         /\ payload[r] # NoPayload
         /\ out.body = payload[r].executionPayload
         /\ payload[r].message.slot = out.req.slot
         /\ payload[r].message.proposerPubkey
              = KnownValidatorsByIndex[out.req.proposerIndex]

C11_Witness ==
  /\ out.op = "getPayload"
  /\ out.code = 200
  /\ out.req.slot = MaxSlot
  /\ out.body.blockHash = out.req.blockHash
  /\ out.body = payload["r1"].executionPayload

\* C12: reading the escrow does not delete or change it: a getPayload request
\* repeated right after one that was answered 200, with the entry not expired
\* in between, is answered 200 with the same payload.
C12_GetPayloadIsIdempotent ==
  (outPrev.op = "getPayload" /\ outPrev.code = 200) =>
    /\ out.op = "getPayload"
    /\ out.req = outPrev.req
    /\ out.code = 200
    /\ out.body = outPrev.body

C12_Witness ==
  /\ outPrev.op = "getPayload"
  /\ outPrev.code = 200
  /\ out.op = "getPayload"
  /\ out.code = 200
  /\ out.body = outPrev.body
  /\ out.body # None

\* C13: every block handed to PublishBlock has its delivered-payload audit
\* row saved already.
C13_AuditSavedBeforePublish ==
  publishedBlocks \subseteq dbDeliveredPayloads


\* C14: at every moment the registration timestamp stored for a pubkey is the
\* maximum timestamp of the registrations saved for that pubkey so far.
C14_StoredTimestampIsMaxAccepted ==
  \A pk \in DOMAIN regTimestamp :
    regTimestamp[pk]
      = Max({p.reg.message.timestamp :
               p \in {x \in persisted : x.reg.message.pubkey = pk}})

\* C15: the timestamp read back by GetValidatorRegistrationTimestamp is the
\* maximum given to SetValidatorRegistrationTimestampIfNewer so far, and 0 for
\* a pubkey without one; a call returns no error, changes nothing when its
\* timestamp is not newer and replaces the stored value when it is.
C15_TimestampIfNewerKeepsMax ==
  /\ \A pk \in Validators :
       GetValidatorRegistrationTimestamp(pk)
         = Max({0} \cup {x[2] : x \in {y \in tsSupplied : y[1] = pk}})
  /\ tsLast # NoTsCall =>
       /\ tsLast.err = "nil"
       /\ tsLast.timestamp <= tsLast.prevTimestamp
            => GetValidatorRegistrationTimestamp(tsLast.pubkey) = tsLast.prevTimestamp
       /\ tsLast.timestamp > tsLast.prevTimestamp
            => GetValidatorRegistrationTimestamp(tsLast.pubkey) = tsLast.timestamp

C15_Witness ==
  /\ tsLast.pubkey = "v1"
  /\ tsLast.timestamp < tsLast.prevTimestamp
  /\ GetValidatorRegistrationTimestamp("v1") = tsLast.prevTimestamp
  /\ GetValidatorRegistrationTimestamp("v2") = 0
  /\ Cardinality({x \in tsSupplied : x[1] = "v1"}) = 3

\* C16: a registration is written to the store only if its pubkey is a known
\* validator, its signature verified, and its timestamp is strictly greater
\* than the timestamp stored for its pubkey.
C16_PersistedOnlyIfNewerAndVerified ==
  [][ \A task \in bgReg :
        (task.step = "timestamp" /\ task \notin bgReg') =>
          /\ IsKnownValidator(task.reg.message.pubkey)
          /\ task.reg.signature = "ok"
          /\ task.reg.message.timestamp
               > GetValidatorRegistrationTimestamp(task.reg.message.pubkey) ]_vars

C18_RejectedBuilderChangesNothing ==
  /\ [](\A in \in SubmissionInputs :
          ( /\ in.defect # "missing"
            /\ \/ builderStatus[in.builder] = "blacklisted"
               \/ ffDisableLowPrioBuilders /\ builderStatus[in.builder] # "high-prio" )
          => /\ SubmissionChecks(BuilderSubmitBlockRequest(in)).code = 200
             /\ SubmissionChecks(BuilderSubmitBlockRequest(in)).msg
                  = IF builderStatus[in.builder] = "blacklisted"
                      THEN "builder is blacklisted"
                      ELSE "rejecting low-prio builder")
  /\ [][ \A r \in Reqs :
           ( /\ pc[r] = "idle"
             /\ resp'[r].msg \in {"builder is blacklisted", "rejecting low-prio builder"} )
           => /\ pc'[r] = "done"
              /\ resp'[r].code = 200
              /\ UNCHANGED <<headSlot, cacheVars, payload, simErr, dbSubmissions,
                             histVars, flagVars>> ]_vars

C18_Witness ==
  /\ pc["r1"] = "done"
  /\ resp["r1"] = [code |-> 200, msg |-> "builder is blacklisted"]
  /\ \E b \in Builders : builderStatus[b] = "blacklisted"
  /\ \E b \in Builders : builderStatus[b] = "high-prio"
  /\ dbSubmissions = EmptyBag
  /\ \A k \in AuctionKeys : cacheGetHeader[k] = None

\* C19 (as stated): every submission whose slot is at or below headSlot is
\* answered 400 'submission for past slot'.
C19_PastSlotIsRejected ==
  \A in \in SubmissionInputs :
    (in.defect # "missing" /\ in.slot <= headSlot)
    => SubmissionChecks(BuilderSubmitBlockRequest(in))
         = [code |-> 400, msg |-> "submission for past slot"]

\* C19 (amended): a submission whose slot is at or below headSlot, from a
\* builder that is neither blacklisted nor turned away as low-prio, is answered
\* 400 'submission for past slot'; it is not simulated, writes neither top bid
\* nor escrow, and leaves no audit row.
C19_PastSlotIsRejectedUnlessBuilderTurnedAway ==
  /\ [](\A in \in SubmissionInputs :
          ( /\ in.defect # "missing"
            /\ in.slot <= headSlot
            /\ builderStatus[in.builder] # "blacklisted"
            /\ ~(ffDisableLowPrioBuilders /\ builderStatus[in.builder] # "high-prio") )
          => SubmissionChecks(BuilderSubmitBlockRequest(in))
               = [code |-> 400, msg |-> "submission for past slot"])
  /\ [][ \A r \in Reqs :
           (pc[r] = "idle" /\ resp'[r].msg = "submission for past slot")
           => /\ pc'[r] = "done"
              /\ resp'[r].code = 400
              /\ UNCHANGED <<headSlot, cacheVars, payload, simErr, dbSubmissions,
                             histVars, flagVars>> ]_vars

C19_Witness ==
  /\ headSlot = MaxSlot
  /\ pc["r1"] = "done"
  /\ resp["r1"] = [code |-> 400, msg |-> "submission for past slot"]
  /\ dbSubmissions = EmptyBag

\* C20: a submission for a slot above headSlot with value 0 or without
\* transactions is answered 200 and changes nothing: it is not simulated,
\* never becomes the top bid, has no payload escrowed and leaves no audit row.
C20_EmptySubmissionChangesNothing ==
  /\ [](\A in \in SubmissionInputs :
          ( /\ in.defect # "missing"
            /\ in.slot > headSlot
            /\ (in.value = 0 \/ in.defect = "noTx") )
          => /\ SubmissionChecks(BuilderSubmitBlockRequest(in)).code = 200
             /\ SubmissionChecks(BuilderSubmitBlockRequest(in)).msg
                  \in {"block with 0 value or no txs", "builder is blacklisted",
                       "rejecting low-prio builder"})
  /\ [][ \A r \in Reqs :
           (pc[r] = "idle" /\ resp'[r].msg = "block with 0 value or no txs")
           => /\ pc'[r] = "done"
              /\ resp'[r].code = 200
              /\ UNCHANGED <<headSlot, cacheVars, payload, simErr, dbSubmissions,
                             histVars, flagVars>> ]_vars
  /\ [](\A k \in AuctionKeys :
          cacheGetHeader[k] # None => cacheGetHeader[k].message.value > 0)
  /\ [](\A bk \in BlockKeys :
          cacheGetPayload[bk] # None => cacheGetPayload[bk].numTx > 0)

C20_Witness ==
  /\ headSlot = 1
  /\ pc["r1"] = "done"
  /\ resp["r1"] = [code |-> 200, msg |-> "block with 0 value or no txs"]
  /\ dbSubmissions = EmptyBag
  /\ payload["r1"] = NoPayload

\* C21: when the simulation of a submission ends with an error, the request
\* is answered 400 with the error's message and ends, one audit row recording
\* the submission with that error is written, and no top bid and no escrowed
\* payload changes, then or later on behalf of that request.
C21_FailedSimulationIsAuditedAndStoresNothing ==
  /\ [][ \A r \in Reqs :
           (pc[r] = "simulate" /\ pc'[r] # "simulate" /\ simErr'[r] # "nil")
           => /\ pc'[r] = "done"
              /\ resp'[r] = [code |-> 400, msg |-> simErr'[r]]
              /\ dbSubmissions'
                   = dbSubmissions (+) SetToBag({SubmissionEntry(payload[r], simErr'[r], FALSE)})
              /\ UNCHANGED <<cacheVars, everTop>> ]_vars
  /\ [](\A r \in Reqs :
          simErr[r] # "nil" => /\ pc[r] = "done"
                               /\ resp[r] = [code |-> 400, msg |-> simErr[r]])

C21_Witness ==
  \E r \in Reqs, q \in Reqs :
    /\ pc[r] = "done"
    /\ simErr[r] = "simulation failed"
    /\ resp[r] = [code |-> 400, msg |-> "simulation failed"]
    /\ BagIn(SubmissionEntry(payload[r], "simulation failed", FALSE), dbSubmissions)
    /\ pc[q] = "done"
    /\ resp[q].msg = "received block from builder"
    /\ AuctionKeyOf(payload[q]) = AuctionKeyOf(payload[r])
    /\ payload[q].message.value < payload[r].message.value
    /\ cacheGetHeader[AuctionKeyOf(payload[r])] = SignedBuilderBidOf(payload[q])
    /\ cacheGetPayload[BlockKeyOf(payload[r])] = None

\* C22 (as stated): getHeader answers 400 'slot is too old' when the slot is
\* below headSlot, otherwise 204 when no bid is stored for the AuctionKey or
\* the stored bid has value 0, and 200 with the stored signed header in every
\* other case.
C22_GetHeaderAnswers ==
  out.op = "getHeader" =>
    LET bid == cacheGetHeader[<<out.req.slot, out.req.parentHash, out.req.pubkey>>]
    IN IF out.req.slot < headSlot
         THEN out.code = 400 /\ out.msg = "slot is too old"
       ELSE IF bid = None
         THEN out.code = 204 /\ out.body = None
       ELSE IF bid.message.value = 0
         THEN out.code = 204 /\ out.body = None
       ELSE out.code = 200 /\ out.body = bid

\* C22 (amended): the same, except that with FORCE_GET_HEADER_204 set every
\* request whose slot is not below headSlot is answered 204; a stored bid of
\* value 0 is answered 204; and the request changes nothing but the response.
C22_GetHeaderAnswersUnlessForced ==
  /\ [](out.op = "getHeader" =>
          LET bid == cacheGetHeader[<<out.req.slot, out.req.parentHash, out.req.pubkey>>]
          IN IF out.req.slot < headSlot
               THEN out.code = 400 /\ out.msg = "slot is too old"
             ELSE IF ffForceGetHeader204
               THEN out.code = 204 /\ out.body = None
             ELSE IF bid = None
               THEN out.code = 204 /\ out.body = None
             ELSE IF bid.message.value = 0
               THEN out.code = 204 /\ out.body = None
             ELSE out.code = 200 /\ out.body = bid)
  /\ [](\A req \in GetHeaderRequests, bid \in StoredBids :
          (req.slot >= headSlot /\ bid.message.value = 0)
          => /\ GetHeaderResponseFor(req, bid).code = 204
             /\ GetHeaderResponseFor(req, bid).body = None)
  /\ [][ out'.op = "getHeader" =>
           UNCHANGED <<headSlot, flagVars, cacheVars, pc, payload, simErr, resp,
                       dbSubmissions, histVars, bidVars, deliveryVars, regVars>> ]_vars

C22_Witness ==
  /\ out.op = "getHeader"
  /\ out.req.slot = headSlot
  /\ ~ffForceGetHeader204
  /\ out.code = 204
  /\ cacheGetHeader[<<out.req.slot, out.req.parentHash, out.req.pubkey>>] = None
  /\ \E k \in AuctionKeys : k[1] = headSlot /\ cacheGetHeader[k] # None

\* C23 (as stated): after a block was submitted and stored for slot s, the
\* head has advanced beyond s and the bid has been purged from the cache, a
\* getHeader for the submission's slot, parent hash and proposer answers 204.
C23_GetHeaderAfterCleanupIs204 ==
  ( /\ out.op = "getHeader"
    /\ pc["r1"] = "done"
    /\ resp["r1"].msg = "received block from builder"
    /\ <<out.req.slot, out.req.parentHash, out.req.pubkey>> = AuctionKeyOf(payload["r1"])
    /\ headSlot > out.req.slot
    /\ cacheGetHeader[AuctionKeyOf(payload["r1"])] = None )
  => out.code = 204

\* C23 (amended): once the head has advanced beyond the slot of a stored
\* submission, a getHeader for its slot, parent hash and proposer answers 400
\* 'slot is too old' and returns no header, whether or not the cleanup task
\* has purged the bid yet.
C23_GetHeaderAfterHeadAdvanceIs400 ==
  ( /\ out.op = "getHeader"
    /\ pc["r1"] = "done"
    /\ resp["r1"].msg = "received block from builder"
    /\ <<out.req.slot, out.req.parentHash, out.req.pubkey>> = AuctionKeyOf(payload["r1"])
    /\ headSlot > out.req.slot )
  => /\ out.code = 400
     /\ out.msg = "slot is too old"
     /\ out.body = None

C23_Witness ==
  /\ out.op = "getHeader"
  /\ pc["r1"] = "done"
  /\ resp["r1"].msg = "received block from builder"
  /\ <<out.req.slot, out.req.parentHash, out.req.pubkey>> = AuctionKeyOf(payload["r1"])
  /\ headSlot = out.req.slot + 1
  /\ cacheGetHeader[AuctionKeyOf(payload["r1"])] = None
  /\ cacheGetPayload[BlockKeyOf(payload["r1"])] = None
  /\ out.code = 400

\* C24: a run of the cleanup task with head slot h leaves no top bid and no
\* escrowed payload for a slot below h in the cache and keeps every entry for
\* a slot at or above h as it was.
C24_CleanupPurgesExactlyPastSlots ==
  [][ ( \/ \E k \in AuctionKeys : cacheGetHeader[k] # None /\ cacheGetHeader'[k] = None
        \/ \E bk \in BlockKeys : cacheGetPayload[bk] # None /\ cacheGetPayload'[bk] = None )
      => /\ headSlot' = headSlot
         /\ \A k \in AuctionKeys :
              cacheGetHeader'[k] = IF k[1] < headSlot THEN None ELSE cacheGetHeader[k]
         /\ \A bk \in BlockKeys :
              cacheGetPayload'[bk] = IF bk[1] < headSlot THEN None ELSE cacheGetPayload[bk] ]_vars

C24_Witness ==
  /\ headSlot = MaxSlot
  /\ \E k \in AuctionKeys : k[1] < headSlot /\ \E h \in BlockHashes : <<k, h>> \in everTop
  /\ \A k \in AuctionKeys : k[1] < headSlot => cacheGetHeader[k] = None
  /\ \A bk \in BlockKeys : bk[1] < headSlot => cacheGetPayload[bk] = None
  /\ \E k \in AuctionKeys : k[1] = headSlot /\ cacheGetHeader[k] # None
  /\ \E bk \in BlockKeys : bk[1] = headSlot /\ cacheGetPayload[bk] # None

\* C25: a getPayload request whose proposer index is not in the map of known
\* validators is answered 400 'could not match proposer index to pubkey'; it
\* returns no payload, starts neither the goroutine that saves the
\* delivered-payload row nor the one that publishes the block, and changes
\* nothing else.
C25_UnknownProposerIndexIsRefused ==
  /\ []( ( /\ out.op = "getPayload"
           /\ out.req.proposerIndex \notin DOMAIN KnownValidatorsByIndex )
         => /\ out.code = 400
            /\ out.msg = "could not match proposer index to pubkey"
            /\ out.body = None )
  /\ [][ ( /\ out'.op = "getPayload"
           /\ out'.req.proposerIndex \notin DOMAIN KnownValidatorsByIndex )
         => UNCHANGED <<bgSaveDelivered, bgPublishBlock, dbDeliveredPayloads,
                        publishedBlocks, cacheVars, headSlot, dbSubmissions>> ]_vars

C25_Witness ==
  /\ out.op = "getPayload"
  /\ out.req.proposerIndex \notin DOMAIN KnownValidatorsByIndex
  /\ out.code = 400
  /\ \E v \in Validators :
       /\ cacheGetPayload[<<out.req.slot, v, out.req.blockHash>>] # None
       /\ out.req.signature = [signer |-> v, domain |-> DomainBeaconProposer]
  /\ dbDeliveredPayloads = {}
  /\ publishedBlocks = {}

\* C26: all relay instances that were constructed without error, with the
\* block-builder API enabled, against the same cache have the same public
\* key, which is the one stored in the relay config; an instance that ends
\* with ErrRelayPubkeyMismatch has left the stored pubkey as it was.
C26_AllInstancesShareRelayPubkey ==
  /\ [](\A i \in Instances, j \in Instances :
          ( /\ relayInstances[i].pc = "done" /\ relayInstances[i].err = "nil"
            /\ relayInstances[i].blockBuilderAPI
            /\ relayInstances[j].pc = "done" /\ relayInstances[j].err = "nil"
            /\ relayInstances[j].blockBuilderAPI )
          => relayInstances[i].publicKey = relayInstances[j].publicKey)
  /\ [][ \A i \in Instances :
           relayInstances'[i].err = "ErrRelayPubkeyMismatch"
           => relayConfigPubkey' = relayConfigPubkey ]_vars

\* C27: after a builder-status update that carries both high_prio and
\* blacklisted the status stored in the cache for the builder is blacklisted;
\* GetBlockBuilderStatus never reports a builder as both high-prio and
\* blacklisted, and reports a builder without a stored status as neither.
C27_BlacklistedTakesPrecedence ==
  /\ ( /\ builderStatusUpdate # NoStatusUpdate
       /\ builderStatusUpdate.isHighPrio
       /\ builderStatusUpdate.isBlacklisted )
     => /\ builderStatus[builderStatusUpdate.builderPubkey] = "blacklisted"
        /\ GetBlockBuilderStatus(builderStatusUpdate.builderPubkey).isBlacklisted
        /\ ~GetBlockBuilderStatus(builderStatusUpdate.builderPubkey).isHighPrio
        /\ builderStatusUpdate.newStatus = "blacklisted"
  /\ \A b \in Builders :
       /\ ~( GetBlockBuilderStatus(b).isHighPrio /\ GetBlockBuilderStatus(b).isBlacklisted )
       /\ builderStatus[b] = ""
            => /\ ~GetBlockBuilderStatus(b).isHighPrio
               /\ ~GetBlockBuilderStatus(b).isBlacklisted

C27_Witness ==
  /\ builderStatusUpdate.isHighPrio
  /\ builderStatusUpdate.isBlacklisted
  /\ builderStatus[builderStatusUpdate.builderPubkey] = "blacklisted"
  /\ \E b \in Builders : builderStatus[b] = ""
  /\ pc["r1"] = "done"
  /\ resp["r1"] = [code |-> 200, msg |-> "builder is blacklisted"]
  /\ payload["r1"] = NoPayload

\* C28: the number of requests that are past the admission wait of send and
\* have not yet released their slot never exceeds maxConcurrentBlocks.
C28_InFlightNeverExceedsLimit ==
  Cardinality({r \in SimReqs : simPc[r] \in {"awoken", "admitted", "simulating", "release"}})
    <= maxConcurrentBlocks

C28_Witness ==
  /\ Cardinality({r \in SimReqs : simPc[r] = "simulating"}) = maxConcurrentBlocks
  /\ Cardinality({r \in SimReqs : simPc[r] = "wait"}) = 2
  /\ \E r \in SimReqs : simPc[r] = "wait" /\ simCancelled[r]
  /\ counter = maxConcurrentBlocks + 2

\* C29: if every simulator call returns, every request that entered send is
\* admitted and returns; a completion wakes the waiter at the head of the list
\* and nobody else, and while a request waits the in-flight count is at the
\* limit, so no wake-up is lost.
C29_EveryRequestIsAdmittedAndReturns ==
  /\ \A r \in SimReqs : (simPc[r] \notin {"idle", "returned"}) ~> (simPc[r] = "returned")
  /\ \A r \in SimReqs : (simPc[r] = "wait") ~> (simPc[r] = "admitted")
  /\ [](cvWaiters # <<>> =>
          Cardinality({r \in SimReqs :
                         simPc[r] \in {"awoken", "admitted", "simulating", "release"}})
            = maxConcurrentBlocks)
  /\ [](Waiting(cvWaiters) = {r \in SimReqs : simPc[r] = "wait"})
  /\ [][ \A r \in SimReqs :
           (simPc[r] = "release" /\ simPc'[r] = "returned" /\ cvWaiters # <<>>)
           => /\ simPc'[Head(cvWaiters)] = "awoken"
              /\ cvWaiters' = Tail(cvWaiters) ]_vars

C29_Witness ==
  /\ \E r \in SimReqs : simPc[r] = "awoken"
  /\ \E r \in SimReqs : simPc[r] = "returned" /\ simResult[r] = "nil"
  /\ cvWaiters # <<>>
  /\ counter = maxConcurrentBlocks + 1

\* C30: a request whose context is cancelled while it waits for admission
\* returns ErrRequestClosed, also when no simulator call in flight ever
\* returns.
C30_CancelledWaiterReturns ==
  \A r \in SimReqs :
    (simPc[r] = "wait" /\ simCancelled[r])
      ~> (simPc[r] = "returned" /\ simResult[r] = ErrRequestClosed)

\* C31: a request whose context is cancelled when it has passed the admission
\* wait returns ErrRequestClosed without the JSON-RPC call being sent, and
\* releases its slot like any other: the counter goes down by one and the
\* waiter at the head of the list is woken.  The counter is the number of
\* requests inside send, waiting or admitted, and so 0 when there is none.
C31_CancelledRequestReleasesItsSlot ==
  /\ [](counter = Cardinality({r \in SimReqs : simPc[r] \notin {"idle", "returned"}}))
  /\ []((\A r \in SimReqs : simPc[r] \in {"idle", "returned"}) => counter = 0)
  /\ [][ \A r \in SimReqs :
           /\ (simPc[r] = "admitted" /\ simCancelled[r] /\ simPc'[r] # "admitted")
              => /\ simPc'[r] = "release"
                 /\ simResult'[r] = ErrRequestClosed
           /\ (simPc[r] = "release" /\ simPc'[r] # "release")
              => /\ simPc'[r] = "returned"
                 /\ simResult'[r] = simResult[r]
                 /\ counter' = counter - 1
                 /\ cvWaiters # <<>> => /\ simPc'[Head(cvWaiters)] = "awoken"
                                        /\ cvWaiters' = Tail(cvWaiters)
           /\ (simPc'[r] = "returned" /\ simResult'[r] = ErrRequestClosed)
              => simPc[r] \in {"release", "returned"} ]_vars

C31_Witness ==
  \E r \in SimReqs :
    /\ simPc[r] = "returned"
    /\ simResult[r] = ErrRequestClosed
    /\ simCancelled[r]
    /\ \E x \in SimReqs : simPc[x] = "awoken"
    /\ \E x \in SimReqs : simPc[x] = "wait"
    /\ \E x \in SimReqs : simPc[x] = "simulating"
    /\ counter = maxConcurrentBlocks + 1

\* C32: headSlot never decreases, whatever head events arrive: it changes
\* only to a slot strictly above its value, and every change starts the duty
\* refresh for the new slot, as processNewSlot does.
C32_HeadSlotNeverDecreases ==
  [][ /\ headSlot' >= headSlot
      /\ headSlot' # headSlot
           => /\ headSlot' \in Slots
              /\ [headSlot |-> headSlot', pc |-> "start"] \in dutiesTasks' ]_vars

C32_Witness ==
  /\ headSlot = MaxSlot
  /\ [headSlot |-> MaxSlot, pc |-> "start"] \in dutiesTasks
  /\ \A t \in dutiesTasks : t.headSlot = MaxSlot
  /\ \E r \in Reqs : pc[r] = "done" /\ resp[r].msg = "submission for past slot"

\* C33: at most one execution of updateProposerDuties is past the guard of
\* isUpdatingProposerDuties at any moment; an invocation that finds a refresh
\* in progress returns without touching the duties list, the recorded refresh
\* slot or the flag, and it is never run again.
C33_SingleRefreshInFlight ==
  /\ [](Cardinality({t \in dutiesTasks : t.pc \in {"refresh", "release"}}) <= 1)
  /\ [](isUpdatingProposerDuties <=> \E t \in dutiesTasks : t.pc \in {"refresh", "release"})
  /\ [](\A t \in dutiesTasks : t.headSlot <= headSlot)
  /\ [][ \A t \in dutiesTasks :
           /\ (t.pc = "start" /\ isUpdatingProposerDuties /\ t \notin dutiesTasks')
                => /\ DutiesTask(t.headSlot, "dropped") \in dutiesTasks'
                   /\ UNCHANGED <<proposerDutiesResponse, proposerDutiesSlot,
                                  isUpdatingProposerDuties>>
           /\ t.pc = "dropped"
                => /\ t \in dutiesTasks'
                   /\ \A u \in dutiesTasks' : u.headSlot = t.headSlot => u = t ]_vars

C33_Witness ==
  /\ \E t \in dutiesTasks : t.pc = "dropped" /\ t.headSlot % 8 = 0
  /\ \E t \in dutiesTasks : t.pc = "refresh"
  /\ \E t \in dutiesTasks : t.pc = "returned"
  /\ \E t \in dutiesTasks : t.pc = "start"

\* C34: a refresh for head slot h replaces the duties list and the recorded
\* refresh slot only if h mod 8 = 0 or h - proposerDutiesSlot >= 8 as
\* integers, so a delayed refresh for a slot below the recorded one that is
\* not a multiple of 8 changes nothing and the recorded slot never decreases.
C34_RefreshSlotNeverDecreases ==
  [][ /\ proposerDutiesSlot' >= proposerDutiesSlot
      /\ \A t \in dutiesTasks :
           (t.pc = "refresh" /\ t \notin dutiesTasks'
              /\ ~(t.headSlot % 8 = 0 \/ t.headSlot - proposerDutiesSlot >= 8))
             => UNCHANGED <<proposerDutiesResponse, proposerDutiesSlot>> ]_vars

\* C35: the slots taken from slotC are, in order, the slots of the head
\* events taken from eventCh that decode, the one still waiting to be sent
\* excepted: no slot is delivered before one that was received earlier.
C35_SlotsDeliveredInOrderReceived ==
  LET slots == SelectSeq(received, LAMBDA e : e.ok)
      sent  == IF fwdPc \in {"send", "panicked"} THEN Append(delivered, fwdSlot)
                                                ELSE delivered
  IN  /\ Len(sent) = Len(slots)
      /\ \A i \in 1..Len(sent) : sent[i] = slots[i].slot

C35_Witness ==
  /\ delivered = <<2, 1>>
  /\ fwdPc = "send" /\ fwdSlot = 2
  /\ Len(received) = MaxEvents

\* C36: after the context is cancelled, slotC is eventually closed and
\* SubscribeToHeadEvents returns, also when the subscription attempt ends
\* with an error because of the cancellation.
C36_CancelClosesSlotChannelAndReturns ==
  ctxCancelled ~> (slotCClosed /\ fwdPc = "returned")

\* C37: no slot is sent on slotC after slotC has been closed: the forwarding
\* loop has no send pending, and starts none, once the channel is closed.
C37_NoSendOnClosedSlotChannel ==
  slotCClosed => fwdPc \notin {"send", "panicked"}

\* C38: every submission that passed the signature check and has returned
\* has written exactly one audit row, whether the simulation failed, the
\* value was not above the top bid or the bid was saved, so that two valid
\* submissions for one AuctionKey are both in the audit; a submission that is
\* rejected by a check, or that has not returned yet, has written none.
C38_OneAuditRowPerCheckedSubmission ==
  LET audited == {r \in Reqs : pc[r] = "done" /\ payload[r] # NoPayload}
      RowsOf(r) == {SubmissionEntry(payload[r], simErr[r], b) : b \in BOOLEAN}
      Alike(r) == {q \in audited : RowsOf(q) = RowsOf(r)}
  IN  /\ BagCardinality(dbSubmissions) = Cardinality(audited)
      /\ \A r \in audited :
           /\ \E e \in RowsOf(r) : BagIn(e, dbSubmissions)
           /\ CopiesIn(SubmissionEntry(payload[r], simErr[r], TRUE), dbSubmissions)
                + CopiesIn(SubmissionEntry(payload[r], simErr[r], FALSE), dbSubmissions)
              = Cardinality(Alike(r))
           /\ resp[r].msg = "received block from builder"
                => BagIn(SubmissionEntry(payload[r], simErr[r], TRUE), dbSubmissions)

C38_Witness ==
  /\ \A r \in Reqs : pc[r] = "done" /\ payload[r] # NoPayload
  /\ \A r, q \in Reqs : AuctionKeyOf(payload[r]) = AuctionKeyOf(payload[q])
  /\ \E r, q \in Reqs :
       /\ resp[r].msg = "received block from builder"
       /\ resp[q].msg = "block submission with same or lower value"
       /\ payload[q].message.value = payload[r].message.value
  /\ BagCardinality(dbSubmissions) = 2

C40_NothingStoredForPastSlot ==
  [][ /\ \A k \in AuctionKeys :
           (cacheGetHeader'[k] # cacheGetHeader[k] /\ cacheGetHeader'[k] # None)
             => k[1] > headSlot
      /\ \A k \in BlockKeys :
           (cacheGetPayload'[k] # cacheGetPayload[k] /\ cacheGetPayload'[k] # None)
             => k[1] > headSlot ]_vars

====
